---- MODULE Spec2Model ----
(***************************************************************************)
(* MicroscopeStream: one camera (frame source), three output modules       *)
(* (stream, storage, timelapse) and the control layer that negotiates the  *)
(* capture rate.  Rates and intervals are exact rationals <<num, den>>;    *)
(* wall-clock time is an integer number of seconds.                        *)
(***************************************************************************)
EXTENDS Integers, Sequences, FiniteSets, TLC

VARIABLES
    settings,   \* ConfigModule.settings (the fields the modules are configured from)
    mods,       \* the three OutputModule objects, by name
    cam,        \* the Camera object
    ctl,        \* the control operation (HTTP handler) that completed last;
                \* with two caller threads, the caller that is not scheduled
    output_modules, \* Camera.output_modules: the registered modules, in order
    now,        \* time.time(), in seconds
    capt,       \* the capture threads (Camera._capture_frames), by thread
    work,       \* the worker threads (process_frames), by thread
    call,       \* the caller thread: the start() or stop() it is executing
    nframes,    \* frames captured so far; a frame is named by its number
    artifacts,  \* the video files written so far, in order of opening
    log         \* what the last add_frame, start or stop returned

vars == <<settings, mods, cam, ctl, output_modules, now, capt, work, call,
          nframes, artifacts, log>>
threadVars == <<output_modules, now, capt, work, call, nframes, artifacts, log>>

Modules == {"stream", "storage", "timelapse"}

\* app.py: output_modules_for_fps, in list order
output_modules_for_fps == <<"stream", "storage", "timelapse">>

-----------------------------------------------------------------------------
(* Rationals *)

RECURSIVE GCD(_, _)
GCD(a, b) == IF b = 0 THEN a ELSE GCD(b, a % b)

Abs(x) == IF x < 0 THEN -x ELSE x

\* n/d in lowest terms with a positive denominator (d # 0)
Rat(n, d) ==
    LET g == GCD(Abs(n), Abs(d))
        s == IF d < 0 THEN -1 ELSE 1
    IN  <<(s * n) \div g, (s * d) \div g>>

RLe(a, b) == a[1] * b[2] <= b[1] * a[2]
RLt(a, b) == a[1] * b[2] < b[1] * a[2]
RMax(a, b) == IF RLt(a, b) THEN b ELSE a
RMin(a, b) == IF RLt(b, a) THEN b ELSE a
RSub(a, b) == Rat(a[1] * b[2] - b[1] * a[2], a[2] * b[2])
Zero == <<0, 1>>
One == <<1, 1>>
\* 1.0 / x (1.0 / inf is 0.0)
Inv(x) == Rat(x[2], x[1])
\* float('inf'): above every number
Inf == <<1, 0>>

-----------------------------------------------------------------------------
(* Program constants *)

\* camera.py: DEFAULT_IDLE_CAMERA_FPS = 1/20
DEFAULT_IDLE_CAMERA_FPS == Rat(1, 20)

\* OutputModule.__init__: self.fps = 10
DefaultModuleFps == 10

\* OutputModule.__init__(max_queue_size): the capacity of frame_queue
max_queue_size == 2

\* thread.join(timeout=2.0) in OutputModule.stop and Camera.stop, in seconds
join_timeout == 2

\* time.time() when the program starts
Epoch == 100
\* the clock stops after this many seconds
MaxTime == 2
\* frames the camera delivers
MaxFrames == 3
\* start() and stop() calls the caller makes
MaxCalls == 2

CaptureThreads == {1, 2}
WorkerThreads == {1, 2}

\* a capture thread that was never started; the fields are the locals of
\* _capture_frames and of the should_process_frame call in it
NoCapture ==
    [pc |-> "none", last_frame_time |-> 0, current_time |-> 0, frame |-> 0,
     i |-> 0, gate_time |-> 0, long_sleep |-> FALSE, error |-> "none"]

\* a worker thread that was never started
NoWorker == [pc |-> "none", mod |-> "none", frame |-> 0]

\* the caller between two calls
NoCall ==
    [pc |-> "idle", op |-> "none", mod |-> "none", was_running |-> FALSE,
     then |-> "none", new_fps |-> <<0, 1>>, resolution |-> 0, brightness_ui |-> 0]

NoLog ==
    [calls |-> 0, run |-> 0, ret |-> "none", add |-> FALSE, accepted |-> <<>>,
     collected |-> <<>>, early |-> FALSE, before |-> 0, yielded |-> 0]

-----------------------------------------------------------------------------
(* Inputs of the control layer *)

\* fps values a settings update may carry (0 and -1: invalid, ignored)
FpsInputs == {-1, 0, 5, 30}
\* timelapse capture intervals, in seconds, a settings update may carry
IntervalInputs == {0, 2, 5}
Resolutions == {1, 2}

-----------------------------------------------------------------------------
(* OutputModule and its subclasses, one call as one step *)

\* OutputModule.__init__ (+ StorageModule / TimelapseModule fields)
NewModule ==
    [is_running |-> FALSE,
     thread |-> 0,
     frame_queue |-> <<>>,
     fps |-> Rat(DefaultModuleFps, 1),
     frame_interval |-> Rat(1, DefaultModuleFps),
     last_frame_time |-> 0,
     last_frame |-> 0,
     writer |-> 0,
     frames |-> <<>>,
     start_time |-> 0,
     duration |-> 300,
     min_frames |-> 10]

\* set_fps, line 68, and set_frametime, line 78: `x <= 0`
InvalidRate(x) == RLe(x, Zero)

\* OutputModule.set_fps: the module after the call
set_fps(m, fps) ==
    IF InvalidRate(fps) THEN m
    ELSE [m EXCEPT !.fps = fps, !.frame_interval = Inv(fps)]

\* set_frametime storing the interval only
set_frametime_keeps_fps(m, frametime) ==
    IF InvalidRate(frametime) THEN m
    ELSE [m EXCEPT !.frame_interval = frametime]

\* OutputModule.set_frametime: the module after the call
set_frametime(m, frametime) ==
    IF InvalidRate(frametime) THEN m
    ELSE [m EXCEPT !.frame_interval = frametime, !.fps = Inv(frametime)]

\* get_required_camera_fps without the is_running test
required_fps_when_stopped(name, m) ==
    IF name = "timelapse" THEN Inv(m.frame_interval) ELSE m.fps

\* get_required_camera_fps of StreamModule, StorageModule, TimelapseModule
get_required_camera_fps(name, m) ==
    IF name = "timelapse"
    THEN IF m.is_running /\ RLt(Zero, m.frame_interval) THEN Inv(m.frame_interval) ELSE Zero
    ELSE IF m.is_running THEN m.fps ELSE Zero

\* the duration test with a strict comparison
DurationElapsedStrictly(m, t) == m.duration > 0 /\ t - m.start_time > m.duration

\* the duration test of lines 51, 59 and 154
DurationElapsed(m, t) == m.duration > 0 /\ t - m.start_time >= m.duration

\* the min_frames test of lines 52, 60 and 155
EnoughFrames(m) == m.min_frames > 0 /\ Len(m.frames) >= m.min_frames

\* _create_timelapse, line 73: the test that discards the session
CreateDiscards(m) == m.frames = <<>> \/ Len(m.frames) < m.min_frames

\* _create_timelapse, lines 76-78
Discarded(m) == [m EXCEPT !.frames = <<>>, !.start_time = 0]

\* _create_timelapse, lines 96-108: the file written from the frames of the session
Assembled(m, run) ==
    [kind |-> "timelapse", run |-> run, frames |-> m.frames, released |-> TRUE]

\* _create_timelapse, lines 113-114
Rearmed(m, t) ==
    [m EXCEPT !.frames = <<>>, !.start_time = IF m.is_running THEN t ELSE 0]

\* start() of a module, the whole call: [ret, m]
ModuleStart(m) ==
    IF m.is_running THEN [ret |-> FALSE, m |-> m]
    ELSE [ret |-> TRUE, m |-> [m EXCEPT !.is_running = TRUE]]

\* stop() of a module, the whole call: [ret, m]
ModuleStop(m) ==
    IF ~m.is_running THEN [ret |-> FALSE, m |-> m]
    ELSE [ret |-> TRUE, m |-> [m EXCEPT !.is_running = FALSE]]

-----------------------------------------------------------------------------
(* Camera, one call as one step.  hw: whether the hardware session opens. *)

\* Camera.__init__
NewCamera ==
    [is_running |-> FALSE,
     camera |-> FALSE,
     thread |-> 0,
     current_capture_fps |-> DEFAULT_IDLE_CAMERA_FPS,
     resolution |-> 1,
     brightness |-> Zero,
     controls |-> Zero]

\* Camera.start: [ret, c]
CameraStart(c, hw) ==
    IF c.is_running THEN [ret |-> FALSE, c |-> c]
    ELSE IF hw THEN [ret |-> TRUE, c |-> [c EXCEPT !.camera = TRUE, !.is_running = TRUE,
                                                   !.controls = c.brightness]]
    ELSE [ret |-> FALSE, c |-> [c EXCEPT !.camera = FALSE]]

\* Camera.stop: [ret, c]
CameraStop(c) ==
    IF ~c.is_running THEN [ret |-> FALSE, c |-> c]
    ELSE [ret |-> TRUE, c |-> [c EXCEPT !.is_running = FALSE, !.camera = FALSE]]

\* the requested rate stored as it is
RequestedFps(new_fps) == new_fps

\* Camera.update_capture_fps, lines 207-209: a rate <= 0 is replaced by 1.0
ValidFps(new_fps) == IF RLe(new_fps, Zero) THEN One ELSE new_fps

\* Camera.update_capture_fps: the camera after the call
update_capture_fps(c, new_fps, hw) ==
    LET fps == ValidFps(new_fps)
    IN  IF c.current_capture_fps # fps
        THEN LET c1 == [c EXCEPT !.current_capture_fps = fps]
             IN  IF c1.is_running /\ c1.camera
                 THEN CameraStart(CameraStop(c1).c, hw).c
                 ELSE c1
        ELSE c

\* a restart whatever the update carries
RestartAlways(c, resolution) == TRUE

\* Camera.update_settings, lines 235-242: the resolution changes to a valid value
RestartRequired(c, resolution) == c.resolution # resolution /\ resolution > 0

\* Camera.update_settings, line 245: the UI value 0..100 as -1.0..1.0
BrightnessInternal(brightness_ui) == RSub(Rat(brightness_ui, 50), One)

\* Camera.update_settings(resolution=...): the camera after the call
update_settings(c, resolution, hw) ==
    IF RestartRequired(c, resolution)
    THEN LET c1 == [c EXCEPT !.resolution = resolution]
         IN  IF c1.is_running THEN CameraStart(CameraStop(c1).c, hw).c ELSE c1
    ELSE c

-----------------------------------------------------------------------------
(* app.py: the FPS negotiation and the control handlers *)

\* the loop of update_camera_fps_based_on_outputs over the first k modules:
\* <<max_required_fps, active_module_found>>
RECURSIVE MaxRequired(_, _)
MaxRequired(ms, k) ==
    IF k = 0 THEN <<Zero, FALSE>>
    ELSE LET prev == MaxRequired(ms, k - 1)
             name == output_modules_for_fps[k]
             required_fps == get_required_camera_fps(name, ms[name])
         IN  IF ms[name].is_running /\ RLt(Zero, required_fps)
             THEN <<RMax(prev[1], required_fps), TRUE>>
             ELSE prev

\* the negotiation with the is_running test of line 41 left out
target_fps_all_modules(ms) ==
    LET r == MaxRequired([name \in Modules |-> [ms[name] EXCEPT !.is_running = TRUE]],
                         Len(output_modules_for_fps))
    IN  IF r[2] /\ RLt(Zero, r[1]) THEN r[1] ELSE DEFAULT_IDLE_CAMERA_FPS

\* target_fps of update_camera_fps_based_on_outputs
target_fps(ms) ==
    LET r == MaxRequired(ms, Len(output_modules_for_fps))
    IN  IF r[2] /\ RLt(Zero, r[1]) THEN r[1] ELSE DEFAULT_IDLE_CAMERA_FPS

\* update_camera_fps_based_on_outputs: the camera after the call
update_camera_fps_based_on_outputs(ms, c, hw) ==
    update_capture_fps(c, target_fps(ms), hw)

\* ConfigModule.update_settings for one key of one section
ConfigUpdate(s, key, val) ==
    CASE key = "stream_fps" -> IF val <= 0 THEN s ELSE [s EXCEPT !.stream_fps = val]
      [] key = "storage_fps" -> IF val <= 0 THEN s ELSE [s EXCEPT !.storage_fps = val]
      [] key = "interval" -> IF val <= 0 THEN s ELSE [s EXCEPT !.interval = val]
      [] key = "resolution" -> [s EXCEPT !.resolution = val]

\* the modules after apply_module_configurations
ConfiguredModules(ms, s) ==
    [name \in Modules |->
        CASE name = "stream" -> set_fps(ms[name], Rat(s.stream_fps, 1))
          [] name = "storage" -> set_fps(ms[name], Rat(s.storage_fps, 1))
          [] name = "timelapse" ->
               [set_frametime(ms[name], Rat(s.interval, 1))
                    EXCEPT !.duration = s.duration, !.min_frames = s.min_frames]]

\* apply_module_configurations: the camera after the call
ConfiguredCamera(ms, c, s, hw1, hw2) ==
    update_camera_fps_based_on_outputs(
        ConfiguredModules(ms, s), update_settings(c, s.resolution, hw1), hw2)

\* ConfigModule.__init__
NewSettings ==
    [stream_fps |-> 10, storage_fps |-> 1, interval |-> 5,
     duration |-> 300, min_frames |-> 10, resolution |-> 1]

\* module level of app.py: the objects are built, then configured
InitControl ==
    /\ settings = NewSettings
    /\ mods = ConfiguredModules([name \in Modules |-> NewModule], NewSettings)
    /\ cam = ConfiguredCamera([name \in Modules |-> NewModule], NewCamera,
                              NewSettings, TRUE, TRUE)
    /\ ctl = [op |-> "init", component |-> "app", success |-> TRUE]
    /\ output_modules = output_modules_for_fps
    /\ now = Epoch
    /\ capt = [t \in CaptureThreads |-> NoCapture]
    /\ work = [w \in WorkerThreads |-> NoWorker]
    /\ call = NoCall
    /\ nframes = 0
    /\ artifacts = <<>>
    /\ log = NoLog

\* POST /api/settings with a non-empty body
api_settings ==
    \E key \in {"stream_fps", "storage_fps", "interval", "resolution"} :
    \E val \in (FpsInputs \cup IntervalInputs \cup Resolutions) :
    \E hw1, hw2 \in BOOLEAN :
        /\ key \in {"stream_fps", "storage_fps"} => val \in FpsInputs
        /\ key = "interval" => val \in IntervalInputs
        /\ key = "resolution" => val \in Resolutions
        /\ settings' = ConfigUpdate(settings, key, val)
        /\ mods' = ConfiguredModules(mods, settings')
        /\ cam' = ConfiguredCamera(mods, cam, settings', hw1, hw2)
        /\ ctl' = [op |-> "settings", component |-> key, success |-> TRUE]
        /\ UNCHANGED threadVars

\* POST /api/control/<module>/start|stop for stream and storage, and
\* /api/control/timelapse/stop
api_control_module ==
    \E name \in Modules, action \in {"start", "stop"}, hw \in BOOLEAN :
        /\ ~(name = "timelapse" /\ action = "start")
        /\ LET r == IF action = "start" THEN ModuleStart(mods[name])
                    ELSE ModuleStop(mods[name])
               ms == [mods EXCEPT ![name] = r.m]
           IN  /\ mods' = ms
               /\ cam' = IF r.ret THEN update_camera_fps_based_on_outputs(ms, cam, hw)
                         ELSE cam
               /\ ctl' = [op |-> action, component |-> name, success |-> r.ret]
        /\ UNCHANGED <<settings, threadVars>>

\* POST /api/control/timelapse/start: timelapse_manager.set_well_label does not
\* exist, the handler raises AttributeError before start() is reached
api_control_timelapse_start ==
    /\ ctl' = [op |-> "raised", component |-> "timelapse", success |-> FALSE]
    /\ UNCHANGED <<settings, mods, cam, threadVars>>

\* POST /api/control/camera/start|stop
api_control_camera ==
    \E action \in {"start", "stop"}, hw1, hw2 \in BOOLEAN :
        /\ LET r == IF action = "start" THEN CameraStart(cam, hw1) ELSE CameraStop(cam)
           IN  /\ cam' = IF r.ret THEN update_camera_fps_based_on_outputs(mods, r.c, hw2)
                         ELSE r.c
               /\ ctl' = [op |-> action, component |-> "camera", success |-> r.ret]
        /\ UNCHANGED <<settings, mods, threadVars>>

NextControl ==
    \/ api_settings
    \/ api_control_module
    \/ api_control_timelapse_start
    \/ api_control_camera

SpecControl == InitControl /\ [][NextControl]_vars

-----------------------------------------------------------------------------
(* The threads, one shared-memory access as one step *)

TickUntil(end) ==
    /\ now < Epoch + end
    /\ now' = now + 1
    /\ UNCHANGED <<settings, mods, cam, ctl, output_modules, capt, work, call,
                   nframes, artifacts, log>>

Tick == TickUntil(MaxTime)

(* Camera._capture_frames *)

\* lines 122-137: the loop test, the pacing test and the sleep it leads to
CaptLoop(t) ==
    /\ capt[t].pc = "loop"
    /\ IF cam.is_running /\ cam.camera
       THEN LET frame_interval == Inv(cam.current_capture_fps)
                elapsed == Rat(now - capt[t].last_frame_time, 1)
                sleep_duration == RSub(frame_interval, elapsed)
                slept == RMax(Rat(1, 1000), RMin(sleep_duration, frame_interval))
            IN  IF RLt(elapsed, frame_interval)
                THEN capt' = [capt EXCEPT ![t].pc = "sleep",
                                          ![t].long_sleep = RLt(Rat(join_timeout, 1), slept)]
                ELSE capt' = [capt EXCEPT ![t].pc = "capture", ![t].current_time = now]
       ELSE capt' = [capt EXCEPT ![t].pc = "exited"]
    /\ UNCHANGED <<settings, mods, cam, ctl, output_modules, now, work, call,
                   nframes, artifacts, log>>

\* line 133 and 137: time.sleep returns, continue
CaptWake(t) ==
    /\ capt[t].pc = "sleep"
    /\ capt' = [capt EXCEPT ![t].pc = "loop", ![t].long_sleep = FALSE]
    /\ UNCHANGED <<settings, mods, cam, ctl, output_modules, now, work, call,
                   nframes, artifacts, log>>

\* lines 140-150: capture_array; with the handle gone (self.camera is None) the
\* call raises, the loop backs off and continues
Capture(t, limit) ==
    /\ capt[t].pc = "capture"
    /\ IF cam.camera
       THEN /\ nframes < limit
            /\ nframes' = nframes + 1
            /\ capt' = [capt EXCEPT ![t].pc = "dist", ![t].frame = nframes + 1,
                                    ![t].i = 1]
       ELSE /\ capt' = [capt EXCEPT ![t].pc = "loop"]
            /\ UNCHANGED nframes
    /\ UNCHANGED <<settings, mods, cam, ctl, output_modules, now, work, call,
                   artifacts, log>>

CaptCapture(t) == Capture(t, MaxFrames)

\* a capture failure that is retried whatever the message says
CaptureFailsRetried(t) ==
    /\ capt[t].pc = "capture"
    /\ cam.camera
    /\ \E error \in {"died", "other"} :
        capt' = [capt EXCEPT ![t].pc = "backoff", ![t].error = error]
    /\ UNCHANGED <<settings, mods, cam, ctl, output_modules, now, work, call,
                   nframes, artifacts, log>>

\* lines 143-148: capture_array raises on the open session; when the message
\* says that the camera has been stopped or is not streaming ("died") the
\* except clause clears is_running
CaptureFails(t) ==
    /\ capt[t].pc = "capture"
    /\ cam.camera
    /\ \E error \in {"died", "other"} :
        /\ capt' = [capt EXCEPT ![t].pc = "backoff", ![t].error = error]
        /\ cam' = IF error = "died" THEN [cam EXCEPT !.is_running = FALSE] ELSE cam
    /\ UNCHANGED <<settings, mods, ctl, output_modules, now, work, call,
                   nframes, artifacts, log>>

\* lines 149-150: time.sleep(0.1), continue
CaptBackoff(t) ==
    /\ capt[t].pc = "backoff"
    /\ capt' = [capt EXCEPT ![t].pc = "loop", ![t].error = "none"]
    /\ UNCHANGED <<settings, mods, cam, ctl, output_modules, now, work, call,
                   nframes, artifacts, log>>

\* lines 153-154, 157: the for loop over output_modules and module.is_running
CaptDist(t) ==
    /\ capt[t].pc = "dist"
    /\ IF capt[t].i > Len(output_modules)
       THEN capt' = [capt EXCEPT ![t].pc = "loop", ![t].frame = 0, ![t].i = 0,
                                 ![t].last_frame_time = capt[t].current_time]
       ELSE IF mods[output_modules[capt[t].i]].is_running
            THEN capt' = [capt EXCEPT ![t].pc = "gate"]
            ELSE capt' = [capt EXCEPT ![t].i = capt[t].i + 1]
    /\ UNCHANGED <<settings, mods, cam, ctl, output_modules, now, work, call,
                   nframes, artifacts, log>>

\* a should_process_frame that admits every frame
CaptGateOpen(t) ==
    /\ capt[t].pc = "gate"
    /\ capt' = [capt EXCEPT ![t].pc = "gate_set", ![t].gate_time = now]
    /\ UNCHANGED <<settings, mods, cam, ctl, output_modules, now, work, call,
                   nframes, artifacts, log>>

\* OutputModule.should_process_frame, lines 88-89 and 92: read the clock, compare
CaptGate(t) ==
    /\ capt[t].pc = "gate"
    /\ LET m == mods[output_modules[capt[t].i]]
       IN  IF RLe(m.frame_interval, Rat(now - m.last_frame_time, 1))
           THEN capt' = [capt EXCEPT ![t].pc = "gate_set", ![t].gate_time = now]
           ELSE capt' = [capt EXCEPT ![t].pc = "dist", ![t].i = capt[t].i + 1]
    /\ UNCHANGED <<settings, mods, cam, ctl, output_modules, now, work, call,
                   nframes, artifacts, log>>

\* OutputModule.should_process_frame, lines 90-91: self.last_frame_time = current_time
CaptGateSet(t) ==
    /\ capt[t].pc = "gate_set"
    /\ mods' = [mods EXCEPT ![output_modules[capt[t].i]].last_frame_time =
                                capt[t].gate_time]
    /\ capt' = [capt EXCEPT ![t].pc = "add"]
    /\ UNCHANGED <<settings, cam, ctl, output_modules, now, work, call,
                   nframes, artifacts, log>>

\* OutputModule.add_frame, lines 57-58: the is_running test
CaptAdd(t) ==
    /\ capt[t].pc = "add"
    /\ IF mods[output_modules[capt[t].i]].is_running
       THEN /\ capt' = [capt EXCEPT ![t].pc = "put"]
            /\ UNCHANGED log
       ELSE /\ capt' = [capt EXCEPT ![t].pc = "dist", ![t].i = capt[t].i + 1,
                                    ![t].gate_time = 0]
            /\ log' = [log EXCEPT !.add = FALSE]
    /\ UNCHANGED <<settings, mods, cam, ctl, output_modules, now, work, call,
                   nframes, artifacts>>

\* a put that ignores maxsize
CaptPutUnbounded(t) ==
    /\ capt[t].pc = "put"
    /\ mods' = [mods EXCEPT ![output_modules[capt[t].i]].frame_queue =
                                Append(@, capt[t].frame)]
    /\ log' = [log EXCEPT !.add = TRUE,
                          !.accepted = Append(@, [frame |-> capt[t].frame,
                                                  at |-> capt[t].gate_time])]
    /\ capt' = [capt EXCEPT ![t].pc = "dist", ![t].i = capt[t].i + 1,
                            ![t].gate_time = 0]
    /\ UNCHANGED <<settings, cam, ctl, output_modules, now, work, call,
                   nframes, artifacts>>

\* OutputModule.add_frame, lines 60-64: frame_queue.put(frame, block=False)
CaptPut(t) ==
    /\ capt[t].pc = "put"
    /\ LET n == output_modules[capt[t].i]
       IN  IF Len(mods[n].frame_queue) >= max_queue_size
           THEN /\ log' = [log EXCEPT !.add = FALSE]
                /\ UNCHANGED mods
           ELSE /\ mods' = [mods EXCEPT ![n].frame_queue = Append(@, capt[t].frame)]
                /\ log' = [log EXCEPT !.add = TRUE,
                                      !.accepted = Append(@,
                                          [frame |-> capt[t].frame,
                                           at |-> capt[t].gate_time])]
    /\ capt' = [capt EXCEPT ![t].pc = "dist", ![t].i = capt[t].i + 1,
                            ![t].gate_time = 0]
    /\ UNCHANGED <<settings, cam, ctl, output_modules, now, work, call,
                   nframes, artifacts>>

(* process_frames of the three modules *)

\* `while self.is_running`
WorkLoop(w) ==
    /\ work[w].pc = "loop"
    /\ work' = [work EXCEPT ![w].pc = IF mods[work[w].mod].is_running
                                      THEN "get" ELSE "exited"]
    /\ UNCHANGED <<settings, mods, cam, ctl, output_modules, now, capt, call,
                   nframes, artifacts, log>>

\* frame_queue.get(timeout=1.0) returns a frame
WorkGet(w) ==
    /\ work[w].pc = "get"
    /\ mods[work[w].mod].frame_queue # <<>>
    /\ work' = [work EXCEPT ![w].pc = "proc",
                            ![w].frame = Head(mods[work[w].mod].frame_queue)]
    /\ mods' = [mods EXCEPT ![work[w].mod].frame_queue = Tail(@)]
    /\ UNCHANGED <<settings, cam, ctl, output_modules, now, capt, call,
                   nframes, artifacts, log>>

\* a queue.get without timeout: the worker stays blocked on the empty queue
WorkGetBlocks(w) ==
    /\ work[w].pc = "get"
    /\ work[w].mod \in {"stream", "storage"}
    /\ mods[work[w].mod].frame_queue = <<>>
    /\ UNCHANGED <<settings, mods, cam, ctl, output_modules, now, capt, work, call,
                   nframes, artifacts, log>>

\* frame_queue.get(timeout=1.0) raises queue.Empty in StreamModule and
\* StorageModule: continue
WorkGetEmpty(w) ==
    /\ work[w].pc = "get"
    /\ work[w].mod \in {"stream", "storage"}
    /\ mods[work[w].mod].frame_queue = <<>>
    /\ work' = [work EXCEPT ![w].pc = "loop"]
    /\ UNCHANGED <<settings, mods, cam, ctl, output_modules, now, capt, call,
                   nframes, artifacts, log>>

\* StreamModule.process_frames, lines 26-29: process, encode, cache
StreamProc(w) ==
    /\ work[w].pc = "proc"
    /\ work[w].mod = "stream"
    /\ mods' = [mods EXCEPT !["stream"].last_frame = work[w].frame]
    /\ work' = [work EXCEPT ![w].pc = "loop", ![w].frame = 0]
    /\ UNCHANGED <<settings, cam, ctl, output_modules, now, capt, call,
                   nframes, artifacts, log>>

\* StorageModule.process_frames, lines 34-36, and _ensure_writer: the writer is
\* opened if there is none
StorageEnsure(w) ==
    /\ work[w].pc = "proc"
    /\ work[w].mod = "storage"
    /\ IF mods["storage"].writer = 0
       THEN /\ artifacts' = Append(artifacts,
                    [kind |-> "video", run |-> log.run, frames |-> <<>>,
                     released |-> FALSE])
            /\ mods' = [mods EXCEPT !["storage"].writer = Len(artifacts) + 1]
       ELSE UNCHANGED <<artifacts, mods>>
    /\ work' = [work EXCEPT ![w].pc = "write"]
    /\ UNCHANGED <<settings, cam, ctl, output_modules, now, capt, call,
                   nframes, log>>

\* StorageModule.process_frames, lines 38-42
StorageWrite(w) ==
    /\ work[w].pc = "write"
    /\ IF mods["storage"].writer # 0
       THEN artifacts' = [artifacts EXCEPT ![mods["storage"].writer].frames =
                                Append(@, work[w].frame)]
       ELSE UNCHANGED artifacts
    /\ work' = [work EXCEPT ![w].pc = "loop", ![w].frame = 0]
    /\ UNCHANGED <<settings, mods, cam, ctl, output_modules, now, capt, call,
                   nframes, log>>

(* Failures while a worker handles a frame *)

\* process_frames of the three modules: a call in the try body raises
\* (process_frame, imencode, os.makedirs in _ensure_writer, writer.write) and
\* the except clause is entered (stream_module.py:41, storage_module.py:46,
\* timelapse_module.py:63)
WorkerRaises(w) ==
    /\ work[w].pc \in {"proc", "write"}
    /\ work' = [work EXCEPT ![w].pc = "failed"]
    /\ UNCHANGED <<settings, mods, cam, ctl, output_modules, now, capt, call,
                   nframes, artifacts, log>>

\* process_frames without the except clause: the exception ends the thread
WorkerUncaught(w) ==
    /\ work[w].pc = "failed"
    /\ work' = [work EXCEPT ![w].pc = "exited", ![w].frame = 0]
    /\ UNCHANGED <<settings, mods, cam, ctl, output_modules, now, capt, call,
                   nframes, artifacts, log>>

\* the `continue` of the except clause: the frame is dropped
WorkerContinue(w) ==
    /\ work[w].pc = "failed"
    /\ work' = [work EXCEPT ![w].pc = "loop", ![w].frame = 0]
    /\ UNCHANGED <<settings, mods, cam, ctl, output_modules, now, capt, call,
                   nframes, artifacts, log>>

\* _ensure_writer, lines 74-79: cv2.VideoWriter cannot open the file; it does
\* not raise, self.writer is a writer that is not opened (no file, kind
\* "unopened") and writes to it are lost
StorageEnsureUnopened(w) ==
    /\ work[w].pc = "proc"
    /\ work[w].mod = "storage"
    /\ mods["storage"].writer = 0
    /\ artifacts' = Append(artifacts,
            [kind |-> "unopened", run |-> log.run, frames |-> <<>>,
             released |-> FALSE])
    /\ mods' = [mods EXCEPT !["storage"].writer = Len(artifacts) + 1]
    /\ work' = [work EXCEPT ![w].pc = "write"]
    /\ UNCHANGED <<settings, cam, ctl, output_modules, now, capt, call,
                   nframes, log>>

(* start() and stop() of a module, called from the caller thread *)

\* the call returns ret
Return(ret) ==
    /\ call' = NoCall
    /\ log' = [log EXCEPT !.ret = ret]

\* the caller calls start() or stop() of a registered module
CallBegin ==
    /\ call.pc = "idle"
    /\ log.calls < MaxCalls
    /\ \E i \in 1..Len(output_modules), op \in {"start", "stop"} :
        call' = [NoCall EXCEPT
                    !.pc = IF op = "start" THEN "start_chk"
                           ELSE IF output_modules[i] = "timelapse" THEN "tl_was"
                           ELSE "stop_chk",
                    !.op = op, !.mod = output_modules[i]]
    /\ log' = [log EXCEPT !.calls = log.calls + 1]
    /\ UNCHANGED <<settings, mods, cam, ctl, output_modules, now, capt, work,
                   nframes, artifacts>>

\* a start() without the is_running test
StartCheckAlways ==
    /\ call.pc = "start_chk"
    /\ call' = [call EXCEPT !.pc = "start_set"]
    /\ UNCHANGED <<settings, mods, cam, ctl, output_modules, now, capt, work,
                   nframes, artifacts, log>>

\* OutputModule.start, lines 27-28 (TimelapseModule.start, lines 26-27)
StartCheck ==
    /\ call.pc = "start_chk"
    /\ IF mods[call.mod].is_running
       THEN Return("False")
       ELSE /\ call' = [call EXCEPT !.pc = "start_set"]
            /\ UNCHANGED log
    /\ UNCHANGED <<settings, mods, cam, ctl, output_modules, now, capt, work,
                   nframes, artifacts>>

\* OutputModule.start, line 30
StartSet ==
    /\ call.pc = "start_set"
    /\ mods' = [mods EXCEPT ![call.mod].is_running = TRUE]
    /\ call' = [call EXCEPT !.pc = "start_clear"]
    /\ log' = [log EXCEPT !.run = log.run + 1, !.accepted = <<>>]
    /\ UNCHANGED <<settings, cam, ctl, output_modules, now, capt, work,
                   nframes, artifacts>>

\* OutputModule.start, line 31: clear_queue
StartClear ==
    /\ call.pc = "start_clear"
    /\ mods' = [mods EXCEPT ![call.mod].frame_queue = <<>>]
    /\ call' = [call EXCEPT !.pc = "start_spawn"]
    /\ UNCHANGED <<settings, cam, ctl, output_modules, now, capt, work,
                   nframes, artifacts, log>>

\* OutputModule.start, lines 32-34: the worker thread is created and started
StartSpawn ==
    /\ call.pc = "start_spawn"
    /\ \E w \in WorkerThreads :
        /\ work[w].pc \in {"none", "exited"}
        /\ \A v \in WorkerThreads : work[v].pc \in {"none", "exited"} => w <= v
        /\ work' = [work EXCEPT ![w] = [pc |-> "loop", mod |-> call.mod, frame |-> 0]]
        /\ mods' = [mods EXCEPT ![call.mod].thread = w]
    /\ IF call.mod = "timelapse"
       THEN /\ call' = [call EXCEPT !.pc = "tl_start"]
            /\ UNCHANGED log
       ELSE Return("True")
    /\ UNCHANGED <<settings, cam, ctl, output_modules, now, capt,
                   nframes, artifacts>>

\* TimelapseModule.start, lines 28-31
TimelapseStart ==
    /\ call.pc = "tl_start"
    /\ mods' = [mods EXCEPT !["timelapse"].frames = <<>>,
                            !["timelapse"].start_time = now]
    /\ Return("True")
    /\ UNCHANGED <<settings, cam, ctl, output_modules, now, capt, work,
                   nframes, artifacts>>

\* TimelapseModule.stop, line 144
TimelapseWasRunning ==
    /\ call.pc = "tl_was"
    /\ call' = [call EXCEPT !.pc = "stop_chk",
                            !.was_running = mods["timelapse"].is_running]
    /\ log' = [log EXCEPT !.collected = mods["timelapse"].frames,
                          !.early = ~DurationElapsed(mods["timelapse"], now),
                          !.before = Len(artifacts)]
    /\ UNCHANGED <<settings, mods, cam, ctl, output_modules, now, capt, work,
                   nframes, artifacts>>

\* OutputModule.stop, lines 38-39, and what the overrides do when it returns
\* False (StorageModule.stop, lines 84-85; TimelapseModule.stop, lines 145-147)
StopCheck ==
    /\ call.pc = "stop_chk"
    /\ IF mods[call.mod].is_running
       THEN /\ call' = [call EXCEPT !.pc = "stop_set"]
            /\ UNCHANGED log
       ELSE IF call.mod = "timelapse" /\ call.was_running
            THEN /\ call' = [call EXCEPT !.pc = "tl_final"]
                 /\ UNCHANGED log
            ELSE Return("False")
    /\ UNCHANGED <<settings, mods, cam, ctl, output_modules, now, capt, work,
                   nframes, artifacts>>

\* OutputModule.stop, line 41
StopSet ==
    /\ call.pc = "stop_set"
    /\ mods' = [mods EXCEPT ![call.mod].is_running = FALSE]
    /\ call' = [call EXCEPT !.pc = "stop_join"]
    /\ UNCHANGED <<settings, cam, ctl, output_modules, now, capt, work,
                   nframes, artifacts, log>>

\* a worker that holds a frame or assembles a video can outlast the join
\* timeout; one that waits in frame_queue.get(timeout=1.0) cannot
WorkerBusy(w) == work[w].pc \notin {"none", "exited", "loop", "get"}

\* OutputModule.stop, lines 42-43: the worker has exited
StopJoin ==
    /\ call.pc = "stop_join"
    /\ mods[call.mod].thread # 0 => work[mods[call.mod].thread].pc = "exited"
    /\ call' = [call EXCEPT !.pc = "stop_clear"]
    /\ UNCHANGED <<settings, mods, cam, ctl, output_modules, now, capt, work,
                   nframes, artifacts, log>>

\* OutputModule.stop, lines 42-43: join(timeout=2.0) returns with the worker alive
StopJoinTimeout ==
    /\ call.pc = "stop_join"
    /\ mods[call.mod].thread # 0
    /\ WorkerBusy(mods[call.mod].thread)
    /\ call' = [call EXCEPT !.pc = "stop_clear"]
    /\ UNCHANGED <<settings, mods, cam, ctl, output_modules, now, capt, work,
                   nframes, artifacts, log>>

\* OutputModule.stop, lines 44-45: clear_queue, return True
StopClear ==
    /\ call.pc = "stop_clear"
    /\ mods' = [mods EXCEPT ![call.mod].frame_queue = <<>>]
    /\ CASE call.mod = "stream" -> Return("True")
         [] call.mod = "storage" ->
              /\ call' = [call EXCEPT !.pc = "release"]
              /\ UNCHANGED log
         [] call.mod = "timelapse" ->
              /\ call' = [call EXCEPT !.pc = "tl_final"]
              /\ UNCHANGED log
    /\ UNCHANGED <<settings, cam, ctl, output_modules, now, capt, work,
                   nframes, artifacts>>

\* StorageModule.stop, lines 87-92
StorageRelease ==
    /\ call.pc = "release"
    /\ IF mods["storage"].writer # 0
       THEN /\ artifacts' = [artifacts EXCEPT ![mods["storage"].writer].released = TRUE]
            /\ mods' = [mods EXCEPT !["storage"].writer = 0]
       ELSE UNCHANGED <<artifacts, mods>>
    /\ Return("True")
    /\ UNCHANGED <<settings, cam, ctl, output_modules, now, capt, work, nframes>>

(* TimelapseModule: the worker, the final check of stop(), _create_timelapse *)

\* process_frames, lines 55-62: queue.Empty
TimelapseGetEmpty(w) ==
    /\ work[w].pc = "get"
    /\ work[w].mod = "timelapse"
    /\ mods["timelapse"].frame_queue = <<>>
    /\ LET m == mods["timelapse"]
       IN  work' = [work EXCEPT ![w].pc =
                IF /\ ~m.is_running
                   /\ m.start_time > 0
                   /\ (DurationElapsed(m, now) \/ EnoughFrames(m))
                THEN "k_check" ELSE "loop"]
    /\ UNCHANGED <<settings, mods, cam, ctl, output_modules, now, capt, call,
                   nframes, artifacts, log>>

\* process_frames, lines 44-47
TimelapseAppend(w) ==
    /\ work[w].pc = "proc"
    /\ work[w].mod = "timelapse"
    /\ mods' = [mods EXCEPT !["timelapse"].frames = Append(@, work[w].frame),
                            !["timelapse"].last_frame = work[w].frame]
    /\ work' = [work EXCEPT ![w].pc = "trigger", ![w].frame = 0]
    /\ UNCHANGED <<settings, cam, ctl, output_modules, now, capt, call,
                   nframes, artifacts, log>>

\* the trigger test with "enough frames" firing while the module runs
TimelapseTriggerOnEnough(w) ==
    /\ work[w].pc = "trigger"
    /\ LET m == mods["timelapse"]
       IN  work' = [work EXCEPT ![w].pc =
                IF DurationElapsed(m, now) \/ EnoughFrames(m)
                THEN "k_check" ELSE "loop"]
    /\ UNCHANGED <<settings, mods, cam, ctl, output_modules, now, capt, call,
                   nframes, artifacts, log>>

\* process_frames, lines 50-53
TimelapseTrigger(w) ==
    /\ work[w].pc = "trigger"
    /\ LET m == mods["timelapse"]
       IN  work' = [work EXCEPT ![w].pc =
                IF DurationElapsed(m, now) \/ (EnoughFrames(m) /\ ~m.is_running)
                THEN "k_check" ELSE "loop"]
    /\ UNCHANGED <<settings, mods, cam, ctl, output_modules, now, capt, call,
                   nframes, artifacts, log>>

\* _create_timelapse in the worker, lines 73-78
WorkerCreateCheck(w) ==
    /\ work[w].pc = "k_check"
    /\ IF CreateDiscards(mods["timelapse"])
       THEN /\ mods' = [mods EXCEPT !["timelapse"] = Discarded(@)]
            /\ work' = [work EXCEPT ![w].pc = "loop"]
       ELSE /\ work' = [work EXCEPT ![w].pc = "k_dims"]
            /\ UNCHANGED mods
    /\ UNCHANGED <<settings, cam, ctl, output_modules, now, capt, call,
                   nframes, artifacts, log>>

\* _create_timelapse in the worker, lines 81-94: self.frames[0] raises IndexError
\* on an empty list, which process_frames catches (lines 63-65)
WorkerCreateDims(w) ==
    /\ work[w].pc = "k_dims"
    /\ work' = [work EXCEPT ![w].pc = IF mods["timelapse"].frames = <<>>
                                      THEN "loop" ELSE "k_write"]
    /\ UNCHANGED <<settings, mods, cam, ctl, output_modules, now, capt, call,
                   nframes, artifacts, log>>

\* _create_timelapse in the worker, lines 96-111
WorkerCreateWrite(w) ==
    /\ work[w].pc = "k_write"
    /\ artifacts' = Append(artifacts, Assembled(mods["timelapse"], log.run))
    /\ work' = [work EXCEPT ![w].pc = "k_clear"]
    /\ UNCHANGED <<settings, mods, cam, ctl, output_modules, now, capt, call,
                   nframes, log>>

\* _create_timelapse in the worker, lines 96-111: writer.write raises after
\* the file was opened and some of the frames written; the except clause
\* prints, the file stays as it is and the writer is not released
WorkerCreateWriteFails(w) ==
    /\ work[w].pc = "k_write"
    /\ \E written \in 0..(Len(mods["timelapse"].frames) - 1) :
        artifacts' = Append(artifacts,
            [kind |-> "timelapse", run |-> log.run,
             frames |-> SubSeq(mods["timelapse"].frames, 1, written),
             released |-> FALSE])
    /\ work' = [work EXCEPT ![w].pc = "k_clear"]
    /\ UNCHANGED <<settings, mods, cam, ctl, output_modules, now, capt, call,
                   nframes, log>>

\* _create_timelapse in the worker, lines 113-114
WorkerCreateClear(w) ==
    /\ work[w].pc = "k_clear"
    /\ mods' = [mods EXCEPT !["timelapse"] = Rearmed(@, now)]
    /\ work' = [work EXCEPT ![w].pc = "loop"]
    /\ UNCHANGED <<settings, cam, ctl, output_modules, now, capt, call,
                   nframes, artifacts, log>>

\* TimelapseModule.stop, lines 154-159
TimelapseStopFinal ==
    /\ call.pc = "tl_final"
    /\ LET m == mods["timelapse"]
       IN  IF Len(m.frames) > 0 /\ (DurationElapsed(m, now) \/ EnoughFrames(m))
           THEN /\ call' = [call EXCEPT !.pc = "k_check"]
                /\ UNCHANGED mods
           ELSE /\ call' = [call EXCEPT !.pc = "tl_time"]
                /\ mods' = IF Len(m.frames) > 0
                           THEN [mods EXCEPT !["timelapse"].frames = <<>>]
                           ELSE mods
    /\ UNCHANGED <<settings, cam, ctl, output_modules, now, capt, work,
                   nframes, artifacts, log>>

\* _create_timelapse in stop(), lines 73-78
StopCreateCheck ==
    /\ call.pc = "k_check"
    /\ IF CreateDiscards(mods["timelapse"])
       THEN /\ mods' = [mods EXCEPT !["timelapse"] = Discarded(@)]
            /\ call' = [call EXCEPT !.pc = "tl_time"]
       ELSE /\ call' = [call EXCEPT !.pc = "k_dims"]
            /\ UNCHANGED mods
    /\ UNCHANGED <<settings, cam, ctl, output_modules, now, capt, work,
                   nframes, artifacts, log>>

\* _create_timelapse in stop(), lines 81-94: an IndexError leaves stop()
StopCreateDims ==
    /\ call.pc = "k_dims"
    /\ IF mods["timelapse"].frames = <<>>
       THEN Return("raised")
       ELSE /\ call' = [call EXCEPT !.pc = "k_write"]
            /\ UNCHANGED log
    /\ UNCHANGED <<settings, mods, cam, ctl, output_modules, now, capt, work,
                   nframes, artifacts>>

\* _create_timelapse in stop(), lines 96-111
StopCreateWrite ==
    /\ call.pc = "k_write"
    /\ artifacts' = Append(artifacts, Assembled(mods["timelapse"], log.run))
    /\ call' = [call EXCEPT !.pc = "k_clear"]
    /\ UNCHANGED <<settings, mods, cam, ctl, output_modules, now, capt, work,
                   nframes, log>>

\* _create_timelapse in stop(), lines 113-114
StopCreateClear ==
    /\ call.pc = "k_clear"
    /\ mods' = [mods EXCEPT !["timelapse"] = Rearmed(@, now)]
    /\ call' = [call EXCEPT !.pc = "tl_time"]
    /\ UNCHANGED <<settings, cam, ctl, output_modules, now, capt, work,
                   nframes, artifacts, log>>

\* TimelapseModule.stop, lines 161-162
TimelapseStopTime ==
    /\ call.pc = "tl_time"
    /\ mods' = [mods EXCEPT !["timelapse"].start_time = 0]
    /\ Return("True")
    /\ UNCHANGED <<settings, cam, ctl, output_modules, now, capt, work,
                   nframes, artifacts>>


(* Camera.start, Camera.stop and Camera.update_capture_fps, called from the
   caller thread.  call.then is what follows the return of a nested call. *)

CameraFpsInputs == {Rat(-1, 1), Zero, DEFAULT_IDLE_CAMERA_FPS, One}
\* brightness_ui values of update_settings (50 is the initial brightness 0.0)
BrightnessInputs == {50, 70}

\* what follows when start() or stop() of the camera returns ret
CameraReturn(ret) ==
    IF call.then = "start"
    THEN /\ call' = [call EXCEPT !.pc = "cam_start_chk", !.then = "done"]
         /\ UNCHANGED log
    ELSE /\ call' = NoCall
         /\ log' = [log EXCEPT !.ret = IF call.then = "none" THEN ret
                                       ELSE IF call.op = "update_settings" THEN "True"
                                       ELSE "None"]

\* the caller calls start(), stop() or update_capture_fps(new_fps) of the camera
CameraCallBegin ==
    /\ call.pc = "idle"
    /\ log.calls < MaxCalls
    /\ \/ \E op \in {"start", "stop"} :
            call' = [NoCall EXCEPT !.pc = IF op = "start" THEN "cam_start_chk"
                                          ELSE "cam_stop_chk",
                                   !.op = op, !.mod = "camera"]
       \/ \E new_fps \in CameraFpsInputs :
            call' = [NoCall EXCEPT !.pc = "cam_fps", !.op = "update_capture_fps",
                                   !.mod = "camera", !.new_fps = new_fps]
       \/ \E resolution \in Resolutions \cup {0}, brightness_ui \in BrightnessInputs :
            call' = [NoCall EXCEPT !.pc = "cam_set", !.op = "update_settings",
                                   !.mod = "camera", !.resolution = resolution,
                                   !.brightness_ui = brightness_ui]
    /\ log' = [log EXCEPT !.calls = log.calls + 1]
    /\ UNCHANGED <<settings, mods, cam, ctl, output_modules, now, capt, work,
                   nframes, artifacts>>

\* a Camera.start without the is_running test
CameraStartCheckAlways ==
    /\ call.pc = "cam_start_chk"
    /\ call' = [call EXCEPT !.pc = "cam_open"]
    /\ UNCHANGED <<settings, mods, cam, ctl, output_modules, now, capt, work,
                   nframes, artifacts, log>>

\* Camera.start, lines 35-36
CameraStartCheck ==
    /\ call.pc = "cam_start_chk"
    /\ IF cam.is_running
       THEN CameraReturn("False")
       ELSE /\ call' = [call EXCEPT !.pc = "cam_open"]
            /\ UNCHANGED log
    /\ UNCHANGED <<settings, mods, cam, ctl, output_modules, now, capt, work,
                   nframes, artifacts>>

\* Camera.start, lines 38-69: the hardware session is opened, configured and started
CameraOpen ==
    /\ call.pc = "cam_open"
    /\ cam' = [cam EXCEPT !.camera = TRUE, !.controls = cam.brightness]
    /\ call' = [call EXCEPT !.pc = "cam_run"]
    /\ UNCHANGED <<settings, mods, ctl, output_modules, now, capt, work,
                   nframes, artifacts, log>>

\* a failing start that keeps the half-opened session
CameraOpenFailsKeepsHandle ==
    /\ call.pc = "cam_open"
    /\ cam' = [cam EXCEPT !.camera = TRUE]
    /\ CameraReturn("False")
    /\ UNCHANGED <<settings, mods, ctl, output_modules, now, capt, work,
                   nframes, artifacts>>

\* Camera.start, lines 77-82: opening or configuring raised
CameraOpenFails ==
    /\ call.pc = "cam_open"
    /\ cam' = [cam EXCEPT !.camera = FALSE]
    /\ CameraReturn("False")
    /\ UNCHANGED <<settings, mods, ctl, output_modules, now, capt, work,
                   nframes, artifacts>>

\* Camera.start, lines 71-75: is_running = True, the capture thread is started
CameraRun ==
    /\ call.pc = "cam_run"
    /\ \E t \in CaptureThreads :
        /\ capt[t].pc \in {"none", "exited"}
        /\ \A u \in CaptureThreads : capt[u].pc \in {"none", "exited"} => t <= u
        /\ capt' = [capt EXCEPT ![t] = [NoCapture EXCEPT !.pc = "loop"]]
    /\ cam' = [cam EXCEPT !.is_running = TRUE, !.thread = 
                  CHOOSE t \in CaptureThreads :
                      /\ capt[t].pc \in {"none", "exited"}
                      /\ \A u \in CaptureThreads :
                            capt[u].pc \in {"none", "exited"} => t <= u]
    /\ CameraReturn("True")
    /\ UNCHANGED <<settings, mods, ctl, output_modules, now, work,
                   nframes, artifacts>>

\* Camera.stop, lines 86-87
CameraStopCheck ==
    /\ call.pc = "cam_stop_chk"
    /\ IF cam.is_running
       THEN /\ call' = [call EXCEPT !.pc = "cam_stop_set"]
            /\ UNCHANGED log
       ELSE CameraReturn("False")
    /\ UNCHANGED <<settings, mods, cam, ctl, output_modules, now, capt, work,
                   nframes, artifacts>>

\* Camera.stop, line 89
CameraStopSet ==
    /\ call.pc = "cam_stop_set"
    /\ cam' = [cam EXCEPT !.is_running = FALSE]
    /\ call' = [call EXCEPT !.pc = "cam_join"]
    /\ UNCHANGED <<settings, mods, ctl, output_modules, now, capt, work,
                   nframes, artifacts, log>>

\* Camera.stop, lines 90-91: the capture thread has exited
CameraJoin ==
    /\ call.pc = "cam_join"
    /\ cam.thread # 0 => capt[cam.thread].pc = "exited"
    /\ call' = [call EXCEPT !.pc = "cam_close"]
    /\ UNCHANGED <<settings, mods, cam, ctl, output_modules, now, capt, work,
                   nframes, artifacts, log>>

\* Camera.stop, lines 90-91: join(timeout=2.0) returns while the capture thread
\* sleeps for longer than the timeout
CameraJoinTimeout ==
    /\ call.pc = "cam_join"
    /\ cam.thread # 0
    /\ capt[cam.thread].pc = "sleep"
    /\ capt[cam.thread].long_sleep
    /\ call' = [call EXCEPT !.pc = "cam_close"]
    /\ UNCHANGED <<settings, mods, cam, ctl, output_modules, now, capt, work,
                   nframes, artifacts, log>>

\* Camera.stop, lines 93-101
CameraClose ==
    /\ call.pc = "cam_close"
    /\ cam' = [cam EXCEPT !.camera = FALSE]
    /\ CameraReturn("True")
    /\ UNCHANGED <<settings, mods, ctl, output_modules, now, capt, work,
                   nframes, artifacts>>

\* an update_capture_fps that starts a camera that is not running
CameraUpdateFpsStarts ==
    /\ call.pc = "cam_fps"
    /\ cam' = [cam EXCEPT !.current_capture_fps = ValidFps(call.new_fps)]
    /\ call' = [call EXCEPT !.pc = IF cam.is_running THEN "cam_stop_chk"
                                   ELSE "cam_start_chk",
                            !.then = IF cam.is_running THEN "start" ELSE "done"]
    /\ UNCHANGED <<settings, mods, ctl, output_modules, now, capt, work,
                   nframes, artifacts, log>>

\* Camera.update_capture_fps, lines 207-224
CameraUpdateFps ==
    /\ call.pc = "cam_fps"
    /\ LET new_fps == ValidFps(call.new_fps)
       IN  IF cam.current_capture_fps # new_fps
           THEN /\ cam' = [cam EXCEPT !.current_capture_fps = new_fps]
                /\ IF cam.is_running /\ cam.camera
                   THEN /\ call' = [call EXCEPT !.pc = "cam_stop_chk", !.then = "start"]
                        /\ UNCHANGED log
                   ELSE /\ call' = NoCall
                        /\ log' = [log EXCEPT !.ret = "None"]
           ELSE /\ call' = NoCall
                /\ log' = [log EXCEPT !.ret = "None"]
                /\ UNCHANGED cam
    /\ UNCHANGED <<settings, mods, ctl, output_modules, now, capt, work,
                   nframes, artifacts>>

\* Camera.update_settings, lines 228-272, with resolution and brightness_ui
CameraUpdateSettings ==
    /\ call.pc = "cam_set"
    /\ LET restart_required == RestartRequired(cam, call.resolution)
           brightness == BrightnessInternal(call.brightness_ui)
           updated == restart_required \/ cam.brightness # brightness
           c1 == [cam EXCEPT !.resolution = IF restart_required THEN call.resolution ELSE @,
                             !.brightness = brightness]
       IN  IF restart_required /\ cam.is_running
           THEN /\ cam' = c1
                /\ call' = [call EXCEPT !.pc = "cam_stop_chk", !.then = "start"]
                /\ UNCHANGED log
           ELSE /\ cam' = IF updated /\ cam.camera /\ cam.is_running
                          THEN [c1 EXCEPT !.controls = brightness]
                          ELSE c1
                /\ call' = NoCall
                /\ log' = [log EXCEPT !.ret = IF updated THEN "True" ELSE "False"]
    /\ UNCHANGED <<settings, mods, ctl, output_modules, now, capt, work,
                   nframes, artifacts>>

CameraStep ==
    \/ CameraCallBegin
    \/ CameraStartCheck
    \/ CameraOpen
    \/ CameraOpenFails
    \/ CameraRun
    \/ CameraStopCheck
    \/ CameraStopSet
    \/ CameraJoin
    \/ CameraJoinTimeout
    \/ CameraClose
    \/ CameraUpdateFps
    \/ CameraUpdateSettings

-----------------------------------------------------------------------------
(* One registered module, a running camera, one caller *)

\* capture intervals (set_frametime), durations and min_frames the module is
\* configured with
FrametimeChoices == {1, 2}
DurationChoices == {2}
MinFramesChoices == {0, 2}

Init ==
    /\ settings = NewSettings
    /\ ctl = [op |-> "init", component |-> "app", success |-> TRUE]
    /\ \E kind \in Modules, ft \in FrametimeChoices,
          d \in DurationChoices \cup {300}, mf \in MinFramesChoices \cup {10} :
        /\ IF kind = "timelapse"
           THEN d \in DurationChoices /\ mf \in MinFramesChoices
           ELSE d = 300 /\ mf = 10
        /\ output_modules = <<kind>>
        /\ mods = [n \in Modules |->
                     IF n = kind
                     THEN [set_frametime(NewModule, Rat(ft, 1))
                               EXCEPT !.duration = d, !.min_frames = mf]
                     ELSE NewModule]
    /\ cam = [NewCamera EXCEPT !.is_running = TRUE, !.camera = TRUE, !.thread = 1,
                               !.current_capture_fps = One]
    /\ now = Epoch
    /\ capt = [t \in CaptureThreads |->
                 IF t = 1 THEN [NoCapture EXCEPT !.pc = "loop"] ELSE NoCapture]
    /\ work = [w \in WorkerThreads |-> NoWorker]
    /\ call = NoCall
    /\ nframes = 0
    /\ artifacts = <<>>
    /\ log = NoLog

CaptureStep ==
    \E t \in CaptureThreads :
        \/ CaptLoop(t)
        \/ CaptWake(t)
        \/ CaptCapture(t)
        \/ CaptDist(t)
        \/ CaptGate(t)
        \/ CaptGateSet(t)
        \/ CaptAdd(t)
        \/ CaptPut(t)

WorkerStep ==
    \E w \in WorkerThreads :
        \/ WorkLoop(w)
        \/ WorkGet(w)
        \/ WorkGetEmpty(w)
        \/ StreamProc(w)
        \/ StorageEnsure(w)
        \/ StorageWrite(w)
        \/ TimelapseGetEmpty(w)
        \/ TimelapseAppend(w)
        \/ TimelapseTrigger(w)
        \/ WorkerCreateCheck(w)
        \/ WorkerCreateDims(w)
        \/ WorkerCreateWrite(w)
        \/ WorkerCreateClear(w)

CallerStep ==
    \/ CallBegin
    \/ StartCheck
    \/ StartSet
    \/ StartClear
    \/ StartSpawn
    \/ TimelapseStart
    \/ TimelapseWasRunning
    \/ StopCheck
    \/ StopSet
    \/ StopJoin
    \/ StopJoinTimeout
    \/ StopClear
    \/ StorageRelease
    \/ TimelapseStopFinal
    \/ StopCreateCheck
    \/ StopCreateDims
    \/ StopCreateWrite
    \/ StopCreateClear
    \/ TimelapseStopTime

Next == Tick \/ CaptureStep \/ WorkerStep \/ CallerStep

Spec == Init /\ [][Next]_vars

-----------------------------------------------------------------------------
(* A module that has run before: start() at Epoch, one frame admitted at Epoch
   and queued, stop() before the worker took it.  One second later the module
   is stopped, its worker has exited and the caller is free to start it again. *)

InitRestart ==
    /\ settings = NewSettings
    /\ ctl = [op |-> "init", component |-> "app", success |-> TRUE]
    /\ \E kind \in Modules, ft \in FrametimeChoices,
          d \in DurationChoices \cup {300}, mf \in MinFramesChoices \cup {10} :
        /\ IF kind = "timelapse"
           THEN d \in DurationChoices /\ mf \in MinFramesChoices
           ELSE d = 300 /\ mf = 10
        /\ output_modules = <<kind>>
        /\ mods = [n \in Modules |->
                     IF n = kind
                     THEN [set_frametime(NewModule, Rat(ft, 1))
                               EXCEPT !.duration = d, !.min_frames = mf,
                                      !.thread = 1, !.last_frame_time = Epoch]
                     ELSE NewModule]
        /\ work = [w \in WorkerThreads |->
                     IF w = 1 THEN [NoWorker EXCEPT !.pc = "exited", !.mod = kind]
                     ELSE NoWorker]
    /\ cam = [NewCamera EXCEPT !.is_running = TRUE, !.camera = TRUE, !.thread = 1,
                               !.current_capture_fps = One]
    /\ now = Epoch + 1
    /\ capt = [t \in CaptureThreads |->
                 IF t = 1 THEN [NoCapture EXCEPT !.pc = "loop", !.last_frame_time = Epoch]
                 ELSE NoCapture]
    /\ call = NoCall
    /\ nframes = 1
    /\ artifacts = <<>>
    /\ log = [NoLog EXCEPT !.run = 1]

SpecRestart == InitRestart /\ [][Next]_vars

\* the same, with failures in the workers
FaultStep ==
    \E w \in WorkerThreads :
        \/ WorkerRaises(w)
        \/ WorkerContinue(w)
        \/ StorageEnsureUnopened(w)
        \/ WorkerCreateWriteFails(w)

SpecFaults == Init /\ [][Next \/ FaultStep]_vars

-----------------------------------------------------------------------------
(* Two caller threads call start() and stop() of one module.  call is
   the caller that is scheduled, ctl the one that is not; a context switch
   exchanges them, anywhere between two steps: the code holds no lock. *)

InitCallers ==
    /\ settings = NewSettings
    /\ ctl = NoCall
    /\ \E kind \in {"stream", "storage"} : output_modules = <<kind>>
    /\ mods = [n \in Modules |-> NewModule]
    /\ cam = NewCamera
    /\ now = Epoch
    /\ capt = [t \in CaptureThreads |-> NoCapture]
    /\ work = [w \in WorkerThreads |-> NoWorker]
    /\ call = NoCall
    /\ nframes = 0
    /\ artifacts = <<>>
    /\ log = NoLog

\* the other caller thread is scheduled
CallerSwitch ==
    /\ call' = ctl
    /\ ctl' = call
    /\ UNCHANGED <<settings, mods, cam, output_modules, now, capt, work,
                   nframes, artifacts, log>>

NextCallers ==
    \/ CallerSwitch
    \/ CallBegin
    \/ StartCheck
    \/ StartSet
    \/ StartClear
    \/ StartSpawn
    \/ StopCheck
    \/ StopSet
    \/ StopJoin
    \/ StopClear
    \/ StorageRelease
    \/ \E w \in WorkerThreads : WorkLoop(w) \/ WorkGetEmpty(w)

SpecCallers == InitCallers /\ [][NextCallers]_vars

\* the same, with workers that are scheduled: a worker that can run does run,
\* and its queue.get(timeout=1.0) returns when the second has passed
SpecCallersFair ==
    /\ SpecCallers
    /\ \A w \in WorkerThreads : WF_vars(WorkLoop(w) \/ WorkGetEmpty(w))

-----------------------------------------------------------------------------
(* The camera is started, stopped and retuned while the stream module runs *)

InitCamera ==
    /\ settings = NewSettings
    /\ ctl = [op |-> "init", component |-> "app", success |-> TRUE]
    /\ output_modules = <<"stream">>
    /\ \E ft \in FrametimeChoices :
        mods = [n \in Modules |->
                  IF n = "stream"
                  THEN [set_frametime(NewModule, Rat(ft, 1)) EXCEPT !.is_running = TRUE,
                                                            !.thread = 1]
                  ELSE NewModule]
    /\ cam = NewCamera
    /\ now = Epoch
    /\ capt = [t \in CaptureThreads |-> NoCapture]
    /\ work = [w \in WorkerThreads |->
                 IF w = 1 THEN [NoWorker EXCEPT !.pc = "loop", !.mod = "stream"]
                 ELSE NoWorker]
    /\ call = NoCall
    /\ nframes = 0
    /\ artifacts = <<>>
    /\ log = NoLog

StreamWorkerStep ==
    \E w \in WorkerThreads :
        \/ WorkLoop(w)
        \/ WorkGet(w)
        \/ WorkGetEmpty(w)
        \/ StreamProc(w)

NextCamera == Tick \/ CaptureStep \/ StreamWorkerStep \/ CameraStep

SpecCamera == InitCamera /\ [][NextCamera]_vars

\* the same, with capture failures
SpecCaptureFaults ==
    InitCamera /\ [][\/ NextCamera
                     \/ \E t \in CaptureThreads : CaptureFails(t) \/ CaptBackoff(t)]_vars

-----------------------------------------------------------------------------
(* The scenario of a timelapse session: duration 10 s, min_frames 3, one frame
   every 2 s.  start() has returned at Epoch: the module runs with its worker,
   an empty frame list and start_time = Epoch.  The camera runs at the
   negotiated rate 1/2; its capture thread took its last frame 0, 1 or 2 s
   before the session start, so the first frame of the session comes 2, 1 or
   0 s after it.  The threads are prompt: a second passes only when the capture
   thread sleeps with no frame due and the worker waits on its empty queue. *)

ScenarioDuration == 10
ScenarioMinFrames == 3
ScenarioFrametime == 2
\* seconds the scenario is followed for, and frames captured in them
ScenarioSeconds == 12
ScenarioFrames == 7

InitScenario ==
    /\ settings = NewSettings
    /\ ctl = [op |-> "init", component |-> "app", success |-> TRUE]
    /\ output_modules = <<"timelapse">>
    /\ mods = [n \in Modules |->
                 IF n = "timelapse"
                 THEN [set_frametime(NewModule, Rat(ScenarioFrametime, 1))
                          EXCEPT !.duration = ScenarioDuration,
                                 !.min_frames = ScenarioMinFrames,
                                 !.is_running = TRUE,
                                 !.thread = 1,
                                 !.start_time = Epoch]
                 ELSE NewModule]
    /\ cam = [NewCamera EXCEPT !.is_running = TRUE, !.camera = TRUE, !.thread = 1,
                               !.current_capture_fps = Rat(1, ScenarioFrametime)]
    /\ now = Epoch
    /\ \E last \in 0..ScenarioFrametime :
        capt = [t \in CaptureThreads |->
                  IF t = 1
                  THEN [NoCapture EXCEPT !.pc = "loop",
                                         !.last_frame_time = Epoch - last]
                  ELSE NoCapture]
    /\ work = [w \in WorkerThreads |->
                 IF w = 1 THEN [NoWorker EXCEPT !.pc = "loop", !.mod = "timelapse"]
                 ELSE NoWorker]
    /\ call = NoCall
    /\ nframes = 0
    /\ artifacts = <<>>
    /\ log = [NoLog EXCEPT !.calls = 1, !.run = 1, !.ret = "True"]

\* every thread waits, nothing more happens in this second: the capture thread
\* sleeps with no frame due (_capture_frames, line 128), the worker polls its
\* empty queue
Quiescent ==
    /\ \A t \in CaptureThreads :
           \/ capt[t].pc \in {"none", "exited"}
           \/ /\ capt[t].pc = "sleep"
              /\ RLt(Rat(now - capt[t].last_frame_time, 1), Inv(cam.current_capture_fps))
    /\ \A w \in WorkerThreads : work[w].pc \in {"none", "loop", "get", "exited"}
    /\ \A n \in Modules : mods[n].frame_queue = <<>>

ScenarioTick == Quiescent /\ TickUntil(ScenarioSeconds)

NextScenario ==
    \/ ScenarioTick
    \/ \E t \in CaptureThreads :
        \/ CaptLoop(t)
        \/ CaptWake(t)
        \/ Capture(t, ScenarioFrames)
        \/ CaptDist(t)
        \/ CaptGate(t)
        \/ CaptGateSet(t)
        \/ CaptAdd(t)
        \/ CaptPut(t)
    \/ \E w \in WorkerThreads :
        \/ WorkLoop(w)
        \/ WorkGet(w)
        \/ TimelapseGetEmpty(w)
        \/ TimelapseAppend(w)
        \/ TimelapseTrigger(w)
        \/ WorkerCreateCheck(w)
        \/ WorkerCreateDims(w)
        \/ WorkerCreateWrite(w)
        \/ WorkerCreateClear(w)

SpecScenario == InitScenario /\ [][NextScenario]_vars

(* The same session fed late: the module was started ScenarioDuration seconds
   before the camera, or together with it.  The camera has just been started
   (its capture thread has taken no frame yet) and from now on offers a frame
   every 2 s, more than min_frames in each window of the duration. *)
InitLateFeed ==
    /\ settings = NewSettings
    /\ ctl = [op |-> "init", component |-> "app", success |-> TRUE]
    /\ output_modules = <<"timelapse">>
    /\ \E started \in {Epoch - ScenarioDuration, Epoch} :
        mods = [n \in Modules |->
                  IF n = "timelapse"
                  THEN [set_frametime(NewModule, Rat(ScenarioFrametime, 1))
                           EXCEPT !.duration = ScenarioDuration,
                                  !.min_frames = ScenarioMinFrames,
                                  !.is_running = TRUE,
                                  !.thread = 1,
                                  !.start_time = started]
                  ELSE NewModule]
    /\ cam = [NewCamera EXCEPT !.is_running = TRUE, !.camera = TRUE, !.thread = 1,
                               !.current_capture_fps = Rat(1, ScenarioFrametime)]
    /\ now = Epoch
    /\ capt = [t \in CaptureThreads |->
                 IF t = 1 THEN [NoCapture EXCEPT !.pc = "loop"] ELSE NoCapture]
    /\ work = [w \in WorkerThreads |->
                 IF w = 1 THEN [NoWorker EXCEPT !.pc = "loop", !.mod = "timelapse"]
                 ELSE NoWorker]
    /\ call = NoCall
    /\ nframes = 0
    /\ artifacts = <<>>
    /\ log = [NoLog EXCEPT !.calls = 1, !.run = 1, !.ret = "True"]

\* the worker and the capture thread are scheduled when they can run, and
\* time passes again and again while they wait
SpecLateFeed ==
    /\ InitLateFeed
    /\ [][NextScenario]_vars
    /\ WF_vars(\E w \in WorkerThreads :
                  \/ WorkLoop(w) \/ WorkGet(w) \/ TimelapseGetEmpty(w)
                  \/ TimelapseAppend(w) \/ TimelapseTrigger(w)
                  \/ WorkerCreateCheck(w) \/ WorkerCreateDims(w)
                  \/ WorkerCreateWrite(w) \/ WorkerCreateClear(w))
    /\ WF_vars(\E t \in CaptureThreads :
                  \/ CaptLoop(t) \/ CaptWake(t) \/ Capture(t, ScenarioFrames)
                  \/ CaptDist(t) \/ CaptGate(t) \/ CaptGateSet(t)
                  \/ CaptAdd(t) \/ CaptPut(t))
    /\ SF_vars(ScenarioTick)

-----------------------------------------------------------------------------
(* The scenario of a rate-limited consumer: a running stream module at 5 fps
   (frame_interval 0.2 s) is offered frames at 30 fps for one second.  The
   clock of this scenario counts thirtieths of a second: frame_interval is 6
   and the camera captures one frame per unit.  The module is in its first
   run (last_frame_time = 0, as __init__ leaves it) and the threads are prompt,
   as in the timelapse scenario. *)

\* 0.2 s, in thirtieths of a second
BurstInterval == 6
\* frames offered in one second at 30 fps
BurstFrames == 30

InitBurst ==
    /\ settings = NewSettings
    /\ ctl = [op |-> "init", component |-> "app", success |-> TRUE]
    /\ output_modules = <<"stream">>
    /\ mods = [n \in Modules |->
                 IF n = "stream"
                 THEN [set_frametime(NewModule, Rat(BurstInterval, 1))
                          EXCEPT !.is_running = TRUE, !.thread = 1]
                 ELSE NewModule]
    /\ cam = [NewCamera EXCEPT !.is_running = TRUE, !.camera = TRUE, !.thread = 1,
                               !.current_capture_fps = One]
    /\ now = Epoch
    /\ \E last \in 0..1 :
        capt = [t \in CaptureThreads |->
                  IF t = 1
                  THEN [NoCapture EXCEPT !.pc = "loop",
                                         !.last_frame_time = Epoch - last]
                  ELSE NoCapture]
    /\ work = [w \in WorkerThreads |->
                 IF w = 1 THEN [NoWorker EXCEPT !.pc = "loop", !.mod = "stream"]
                 ELSE NoWorker]
    /\ call = NoCall
    /\ nframes = 0
    /\ artifacts = <<>>
    /\ log = [NoLog EXCEPT !.calls = 1, !.run = 1, !.ret = "True"]

BurstTick == Quiescent /\ TickUntil(BurstFrames)

NextBurst ==
    \/ BurstTick
    \/ \E t \in CaptureThreads :
        \/ CaptLoop(t)
        \/ CaptWake(t)
        \/ Capture(t, BurstFrames)
        \/ CaptDist(t)
        \/ CaptGate(t)
        \/ CaptGateSet(t)
        \/ CaptAdd(t)
        \/ CaptPut(t)
    \/ \E w \in WorkerThreads :
        \/ WorkLoop(w)
        \/ WorkGet(w)
        \/ WorkGetEmpty(w)
        \/ StreamProc(w)

SpecBurst == InitBurst /\ [][NextBurst]_vars

-----------------------------------------------------------------------------
(* set_fps and set_frametime called directly on the three modules, with
   arguments of every kind: negative, zero, below and above one, infinite *)

RateInputs == {Rat(-1, 1), Zero, Rat(1, 2), Rat(5, 1), Inf}
\* calls made
MaxRateCalls == 3

InitRate ==
    /\ settings = NewSettings
    /\ ctl = [op |-> "init", component |-> "app", success |-> TRUE]
    /\ output_modules = output_modules_for_fps
    /\ mods = [n \in Modules |-> NewModule]
    /\ cam = NewCamera
    /\ now = Epoch
    /\ capt = [t \in CaptureThreads |-> NoCapture]
    /\ work = [w \in WorkerThreads |-> NoWorker]
    /\ call = NoCall
    /\ nframes = 0
    /\ artifacts = <<>>
    /\ log = NoLog

\* one call module.set_fps(x) or module.set_frametime(x), with its return value
RateCall(n, op, x) ==
    /\ log.calls < MaxRateCalls
    /\ mods' = [mods EXCEPT ![n] = IF op = "set_fps" THEN set_fps(@, x)
                                   ELSE set_frametime(@, x)]
    /\ call' = [NoCall EXCEPT !.op = op, !.mod = n, !.new_fps = x]
    /\ log' = [log EXCEPT !.calls = @ + 1,
                          !.ret = IF InvalidRate(x) THEN "False" ELSE "True"]
    /\ UNCHANGED <<settings, cam, ctl, output_modules, now, capt, work,
                   nframes, artifacts>>

SetFps == \E n \in Modules, x \in RateInputs : RateCall(n, "set_fps", x)

SetFrametime == \E n \in Modules, x \in RateInputs : RateCall(n, "set_frametime", x)

NextRate == SetFps \/ SetFrametime

SpecRate == InitRate /\ [][NextRate]_vars

-----------------------------------------------------------------------------
(* The MJPEG stream: a client thread runs StreamModule.generate_frames beside
   the capture thread, the stream worker and a caller of start() and stop().
   The stream module is running: start() has returned True.  The client thread
   and the caller are the two caller threads; log.yielded is the frame of the
   last emission tick, 0 when the tick yielded nothing. *)

InitStream ==
    /\ settings = NewSettings
    /\ ctl = [NoCall EXCEPT !.pc = "gen_test", !.op = "generate_frames",
                            !.mod = "stream"]
    /\ output_modules = <<"stream">>
    /\ \E ft \in FrametimeChoices :
        mods = [n \in Modules |->
                  IF n = "stream"
                  THEN [set_frametime(NewModule, Rat(ft, 1))
                            EXCEPT !.is_running = TRUE, !.thread = 1]
                  ELSE NewModule]
    /\ cam = [NewCamera EXCEPT !.is_running = TRUE, !.camera = TRUE, !.thread = 1,
                               !.current_capture_fps = One]
    /\ now = Epoch
    /\ capt = [t \in CaptureThreads |->
                 IF t = 1 THEN [NoCapture EXCEPT !.pc = "loop"] ELSE NoCapture]
    /\ work = [w \in WorkerThreads |->
                 IF w = 1 THEN [pc |-> "loop", mod |-> "stream", frame |-> 0]
                 ELSE NoWorker]
    /\ call = NoCall
    /\ nframes = 0
    /\ artifacts = <<>>
    /\ log = [NoLog EXCEPT !.run = 1]

\* generate_frames, lines 52-54: the loop test, then the sleep; the generator
\* ends when the module is not running and a later request starts it again
GenerateLoop ==
    /\ call.pc \in {"gen_test", "gen_done"}
    /\ call' = [call EXCEPT !.pc = IF mods["stream"].is_running
                                   THEN "gen_get" ELSE "gen_done"]
    /\ UNCHANGED <<settings, mods, cam, ctl, output_modules, now, capt, work,
                   nframes, artifacts, log>>

\* generate_frames, lines 55-58, with get_frame, lines 46-48
GenerateYield ==
    /\ call.pc = "gen_get"
    /\ log' = [log EXCEPT !.yielded = mods["stream"].last_frame]
    /\ call' = [call EXCEPT !.pc = "gen_test"]
    /\ UNCHANGED <<settings, mods, cam, ctl, output_modules, now, capt, work,
                   nframes, artifacts>>

NextStream ==
    \/ CallerSwitch
    \/ Tick
    \/ CaptureStep
    \/ \E w \in WorkerThreads :
        WorkLoop(w) \/ WorkGet(w) \/ WorkGetEmpty(w) \/ StreamProc(w)
    \/ CallBegin
    \/ StartCheck \/ StartSet \/ StartClear \/ StartSpawn
    \/ StopCheck \/ StopSet \/ StopJoin \/ StopJoinTimeout \/ StopClear
    \/ GenerateLoop
    \/ GenerateYield

SpecStream == InitStream /\ [][NextStream]_vars

-----------------------------------------------------------------------------
(* The camera's list of output modules: add_output_module and
   remove_output_module, called one after the other on the list that
   Camera.__init__ leaves empty *)

\* calls made
MaxRegistryCalls == 4

\* add_output_module with the membership test left out
add_output_module_unchecked(list, module) ==
    [ret |-> TRUE, list |-> Append(list, module)]

\* Camera.add_output_module, lines 103-108: [ret, list]
add_output_module(list, module) ==
    IF \A i \in 1..Len(list) : list[i] # module
    THEN [ret |-> TRUE, list |-> Append(list, module)]
    ELSE [ret |-> FALSE, list |-> list]

\* Camera.remove_output_module, lines 110-115: list.remove takes out the first
\* occurrence
remove_output_module(list, module) ==
    IF \E i \in 1..Len(list) : list[i] = module
    THEN LET first == CHOOSE i \in 1..Len(list) :
                        /\ list[i] = module
                        /\ \A j \in 1..(i - 1) : list[j] # module
         IN  [ret |-> TRUE,
              list |-> SubSeq(list, 1, first - 1) \o SubSeq(list, first + 1, Len(list))]
    ELSE [ret |-> FALSE, list |-> list]

InitRegistry ==
    /\ settings = NewSettings
    /\ ctl = [op |-> "init", component |-> "app", success |-> TRUE]
    /\ output_modules = <<>>
    /\ mods = [n \in Modules |-> NewModule]
    /\ cam = NewCamera
    /\ now = Epoch
    /\ capt = [t \in CaptureThreads |-> NoCapture]
    /\ work = [w \in WorkerThreads |-> NoWorker]
    /\ call = NoCall
    /\ nframes = 0
    /\ artifacts = <<>>
    /\ log = NoLog

\* one call camera.add_output_module(module) or camera.remove_output_module(module)
RegistryCall(op, module) ==
    /\ log.calls < MaxRegistryCalls
    /\ LET r == IF op = "add_output_module"
                THEN add_output_module(output_modules, module)
                ELSE remove_output_module(output_modules, module)
       IN  /\ output_modules' = r.list
           /\ log' = [log EXCEPT !.calls = @ + 1,
                                 !.ret = IF r.ret THEN "True" ELSE "False",
                                 !.before = Len(output_modules)]
    /\ call' = [NoCall EXCEPT !.op = op, !.mod = module]
    /\ UNCHANGED <<settings, mods, cam, ctl, now, capt, work, nframes, artifacts>>

AddOutputModule == \E module \in Modules : RegistryCall("add_output_module", module)

RemoveOutputModule ==
    \E module \in Modules : RegistryCall("remove_output_module", module)

SpecRegistry == InitRegistry /\ [][AddOutputModule \/ RemoveOutputModule]_vars

-----------------------------------------------------------------------------
(* Properties *)

C2_AddFrameNonBlocking ==
    [][ /\ \A n \in Modules : Len(mods[n].frame_queue) <= max_queue_size
        /\ \A n \in Modules : Len(mods'[n].frame_queue) <= max_queue_size
        /\ \A t \in CaptureThreads :
            capt[t].pc = "put" =>
                /\ ENABLED CaptPut(t)
                /\ capt'[t] # capt[t] =>
                    LET n == output_modules[capt[t].i]
                    IN  /\ capt'[t].pc = "dist"
                        /\ IF Len(mods[n].frame_queue) = max_queue_size
                           THEN /\ log'.add = FALSE
                                /\ mods'[n].frame_queue = mods[n].frame_queue
                           ELSE /\ log'.add = TRUE
                                /\ mods'[n].frame_queue =
                                       Append(mods[n].frame_queue, capt[t].frame)
      ]_vars

\* C2: a frame was refused because the queue of the running module was full
C2_Witness ==
    \E n \in Modules :
        /\ mods[n].is_running
        /\ Len(mods[n].frame_queue) = max_queue_size
        /\ Len(log.accepted) = max_queue_size
        /\ log.calls = 1
        /\ log.add = FALSE
        /\ capt[1].pc = "dist"
        /\ capt[1].i = 2
        /\ capt[1].frame = max_queue_size + 1

\* C3: no frame is in the queue of a module whose stop() has returned and which
\* has not been started again.
C3_StoppedQueueEmpty ==
    \A n \in Modules :
        (call.pc = "idle" /\ ~mods[n].is_running) => mods[n].frame_queue = <<>>

\* C5: start() on a running module returns False and changes nothing, stop() on
\* a stopped module returns False, raises nothing and changes nothing; for the
\* base class and for the storage and timelapse overrides.
C5_StartStopIdempotent ==
    [][ /\ (/\ call.pc = "start_chk"
            /\ mods[call.mod].is_running
            /\ call' # call)
           => /\ call' = NoCall
              /\ log'.ret = "False"
              /\ UNCHANGED <<mods, work, artifacts>>
        /\ (/\ call.pc \in {"tl_was", "stop_chk"}
            /\ ~mods[call.mod].is_running
            /\ ~call.was_running
            /\ call' # call)
           => /\ \/ call' = NoCall /\ log'.ret = "False"
                 \/ call.pc = "tl_was" /\ call' = [call EXCEPT !.pc = "stop_chk"]
              /\ UNCHANGED <<mods, work, artifacts>>
      ]_vars

\* C5: a second start() of the running timelapse module has returned False
C5_Witness ==
    /\ call.pc = "idle"
    /\ log.calls = 2
    /\ log.run = 1
    /\ log.ret = "False"
    /\ mods["timelapse"].is_running
    /\ mods["timelapse"].thread = 1
    /\ work[2].pc = "none"

\* C4: for two frames enqueued one after the other into the same module, the
\* time between their should_process_frame admissions is at least the
\* frame_interval of the module.
C4_MinimumSpacing ==
    \A k \in 1..(Len(log.accepted) - 1) :
        RLe(mods["stream"].frame_interval,
            Rat(Abs(log.accepted[k + 1].at - log.accepted[k].at), 1))

\* C6: Camera.start() on a running camera returns False, opens no second
\* hardware session and launches no second capture thread; Camera.stop() on a
\* camera that is not running returns False and touches neither the hardware
\* handle nor any other state.
C6_CameraStartStopIdempotent ==
    [][ /\ (/\ call.pc = "cam_start_chk"
            /\ cam.is_running
            /\ call' # call)
           => /\ call' = NoCall
              /\ log'.ret = "False"
              /\ UNCHANGED <<cam, capt, mods, work>>
        /\ (/\ call.pc = "cam_stop_chk"
            /\ ~cam.is_running
            /\ call' # call)
           => /\ call' = NoCall
              /\ log'.ret = "False"
              /\ UNCHANGED <<cam, capt, mods, work>>
      ]_vars

\* C6: a second Camera.start() has returned False, one capture thread exists
C6_Witness ==
    /\ call.pc = "idle"
    /\ log.calls = 2
    /\ log.ret = "False"
    /\ cam.is_running
    /\ cam.camera
    /\ cam.thread = 1
    /\ capt[1].pc # "none"
    /\ capt[2].pc = "none"

\* C7: a StorageModule that was started, offered frames and stopped has produced
\* exactly one artifact, opened and released, and the number of frames written
\* to it is the number of add_frame calls that returned True.
C7_StorageOneArtifact ==
    (/\ output_modules = <<"storage">>
     /\ call.pc = "idle"
     /\ log.calls = 2
     /\ log.run = 1
     /\ log.ret = "True"
     /\ ~mods["storage"].is_running)
    => /\ Len(artifacts) = 1
       /\ artifacts[1].released
       /\ Len(artifacts[1].frames) = Len(log.accepted)

\* C8: a TimelapseModule stopped before its duration elapsed: with fewer than
\* min_frames frames collected at the call of stop() no artifact is produced and
\* the frames are discarded, with at least min_frames (and a frame to write)
\* exactly one artifact is produced, holding the collected frames in order.
C8_TimelapseStopBeforeDuration ==
    (/\ output_modules = <<"timelapse">>
     /\ call.pc = "idle"
     /\ log.calls = 2
     /\ log.run = 1
     /\ log.ret = "True"
     /\ log.early
     /\ ~mods["timelapse"].is_running)
    => IF \/ Len(log.collected) < mods["timelapse"].min_frames
          \/ log.collected = <<>>
       THEN /\ Len(artifacts) = log.before
            /\ mods["timelapse"].frames = <<>>
       ELSE /\ Len(artifacts) = log.before + 1
            /\ artifacts[Len(artifacts)].frames = log.collected

\* C9: every timelapse artifact holds at least min_frames frames and at least
\* one frame.
C9_ArtifactHasMinFrames ==
    \A k \in 1..Len(artifacts) :
        artifacts[k].kind = "timelapse" =>
            /\ Len(artifacts[k].frames) >= mods["timelapse"].min_frames
            /\ Len(artifacts[k].frames) >= 1

\* C10: when the assembly that the duration trigger started completes with the
\* module still running, the list of collected frames is empty and start_time
\* is the current time, with at least min_frames frames and with fewer.
C10_DurationTriggerRearms ==
    [][ \A w \in WorkerThreads :
            (/\ work[w].pc \in {"k_check", "k_clear"}
             /\ work'[w].pc = "loop"
             /\ mods["timelapse"].is_running)
            => /\ mods'["timelapse"].frames = <<>>
               /\ mods'["timelapse"].start_time = now
      ]_vars

\* C11 (as stated): the artifact of the scenario (duration 10 s, min_frames 3,
\* one frame every 2 s) has 5 frames.
C11_ArtifactHasFiveFrames ==
    \A k \in 1..Len(artifacts) : Len(artifacts[k].frames) = 5

\* C11 (amended): in the scenario one artifact is assembled, at the first append
\* 10 s or more after the session start (t = 10 s, or 11 s when the frames
\* fall on odd seconds); it holds every frame collected since the start, 5
\* frames when the first frame comes 2 s after the start and 6 when it comes
\* earlier; the module then re-arms (start_time is the assembly time, the
\* frame list holds only later frames) and collects again.
C11_ScenarioAssemblesAndRearms ==
    LET first == log.accepted[1].at - Epoch
        assembly == Epoch + ScenarioDuration + (first % ScenarioFrametime)
        m == mods["timelapse"]
    IN  /\ Len(artifacts) <= 1
        /\ now < Epoch + ScenarioDuration => artifacts = <<>>
        /\ artifacts # <<>> =>
              /\ artifacts[1].frames =
                    [i \in 1..(IF first = ScenarioFrametime
                               THEN ScenarioDuration \div ScenarioFrametime
                               ELSE ScenarioDuration \div ScenarioFrametime + 1) |-> i]
              /\ work[1].pc \notin {"k_check", "k_dims", "k_write", "k_clear"} =>
                    /\ m.start_time = assembly
                    /\ \A i \in 1..Len(m.frames) : m.frames[i] > Len(artifacts[1].frames)
        /\ (Quiescent /\ log.accepted # <<>> /\ now >= assembly) =>
              /\ Len(artifacts) = 1
              /\ now >= assembly + ScenarioFrametime => m.frames # <<>>

\* the artifact of the scenario is assembled with 5 frames at t = 10 s, the
\* module is re-armed and has collected the frame of t = 12 s
C11_Witness ==
    /\ Len(artifacts) = 1
    /\ Len(artifacts[1].frames) = 5
    /\ mods["timelapse"].start_time = Epoch + ScenarioDuration
    /\ mods["timelapse"].frames = <<6>>
    /\ now = Epoch + ScenarioSeconds

\* C12: while the timelapse module is running, the worker starts an assembly
\* only from the test that follows an append and only when the duration has
\* elapsed, whatever the number of collected frames; every other assembly is
\* started after stop() has set is_running to False, by the worker's exit
\* paths or by the final check of stop().
C12_OnlyDurationOrStopTriggers ==
    [][ LET m == mods["timelapse"]
        IN  /\ \A w \in WorkerThreads :
                  (work[w].pc # "k_check" /\ work'[w].pc = "k_check" /\ m.is_running)
                  => (work[w].pc = "trigger" /\ DurationElapsed(m, now))
            /\ (call.pc # "k_check" /\ call'.pc = "k_check")
                  => (call.op = "stop" /\ ~m.is_running)
      ]_vars

\* the running module holds min_frames frames, the duration has not elapsed, the
\* test after the last append is over and nothing was assembled
C12_Witness ==
    /\ mods["timelapse"].is_running
    /\ EnoughFrames(mods["timelapse"])
    /\ ~DurationElapsed(mods["timelapse"], now)
    /\ \E w \in WorkerThreads : work[w].pc = "get" /\ work[w].mod = "timelapse"
    /\ call.pc = "idle"
    /\ artifacts = <<>>

\* C13: frame_interval of every module is strictly positive in every state,
\* and a call of set_fps or set_frametime with a non-positive argument returns
\* False and leaves fps and frame_interval as they were.
C13_FrameIntervalPositive ==
    /\ \A n \in Modules : RLt(Zero, mods[n].frame_interval)
    /\ (call.op \in {"set_fps", "set_frametime"} /\ RLe(call.new_fps, Zero))
          => log.ret = "False"

\* C14: fps and frame_interval of every module are derived from each other,
\* frame_interval = 1/fps, initially and after every call; a successful
\* set_fps(f) leaves fps = f and frame_interval = 1/f, a successful
\* set_frametime(t) leaves frame_interval = t and fps = 1/t.
C14_FpsIntervalMutuallyDerived ==
    /\ \A n \in Modules : mods[n].frame_interval = Inv(mods[n].fps)
    /\ (call.op = "set_fps" /\ log.ret = "True") =>
          /\ mods[call.mod].fps = call.new_fps
          /\ mods[call.mod].frame_interval = Inv(call.new_fps)
    /\ (call.op = "set_frametime" /\ log.ret = "True") =>
          /\ mods[call.mod].frame_interval = call.new_fps
          /\ mods[call.mod].fps = Inv(call.new_fps)

\* set_frametime(1/2) has succeeded on a module after set_fps(5) on it
C14_Witness ==
    /\ call.op = "set_frametime"
    /\ log.ret = "True"
    /\ log.calls >= 2
    /\ mods[call.mod].frame_interval = Rat(1, 2)
    /\ mods[call.mod].fps = Rat(2, 1)

\* C15: a call of update_capture_fps, with a new rate on a running camera as
\* with any other, leaves the camera running: no step of the call changes
\* is_running, the hardware session or the capture thread.
C15_UpdateFpsWithoutRestart ==
    [][ call.op = "update_capture_fps" =>
            /\ cam'.is_running = cam.is_running
            /\ cam'.camera = cam.camera
            /\ cam'.thread = cam.thread
      ]_vars

\* C16: current_capture_fps is strictly positive in every state, and once
\* update_capture_fps has stored the rate for an argument <= 0 the rate is 1.
C16_CaptureFpsPositive ==
    /\ RLt(Zero, cam.current_capture_fps)
    /\ (/\ call.op = "update_capture_fps"
        /\ call.pc # "cam_fps"
        /\ RLe(call.new_fps, Zero))
          => cam.current_capture_fps = One

\* update_capture_fps(0) on the running camera has stored 1.0 and restarts it;
\* the capture thread computes its interval from the new rate
C16_Witness ==
    /\ call.op = "update_capture_fps"
    /\ call.new_fps = Zero
    /\ call.pc = "cam_stop_chk"
    /\ cam.current_capture_fps = One
    /\ \E t \in CaptureThreads : capt[t].pc = "loop"

\* C17: on a running camera update_settings goes on to a stop followed by a
\* start exactly when the resolution it carries is valid and differs from the
\* current one; otherwise the call ends at once with the brightness applied to
\* the open session and is_running, the session and the capture thread as they
\* were.  No other step of update_settings touches them.
C17_RestartOnlyOnResolutionChange ==
    [][ call.op = "update_settings" =>
          LET changes == call.resolution # cam.resolution /\ call.resolution > 0
              untouched == /\ cam'.is_running = cam.is_running
                           /\ cam'.camera = cam.camera
                           /\ cam'.thread = cam.thread
          IN  /\ (call.pc = "cam_set" /\ call' # call /\ cam.is_running) =>
                    IF changes
                    THEN /\ call'.pc = "cam_stop_chk"
                         /\ call'.then = "start"
                         /\ cam'.resolution = call.resolution
                    ELSE /\ call' = NoCall
                         /\ untouched
                         /\ cam'.resolution = cam.resolution
                         /\ cam'.controls = RSub(Rat(call.brightness_ui, 50), One)
              /\ call.then = "none" => untouched
              /\ (call.pc = "cam_stop_chk" /\ call.then = "start") => cam.is_running
      ]_vars

\* update_settings with another resolution on the running camera: the camera
\* was stopped and closed, and the start that follows has opened a new session
C17_Witness ==
    /\ call.op = "update_settings"
    /\ call.then = "done"
    /\ call.pc = "cam_run"
    /\ cam.resolution = 2
    /\ cam.camera
    /\ ~cam.is_running

\* C18: when Camera.start() cannot open or configure the hardware session it
\* reports failure, is_running stays False, no capture thread is created and
\* no session handle is kept; a later start() is not refused and tries to open
\* the session again.
C18_FailedStartLeavesCameraStopped ==
    [][ /\ (call.pc = "cam_open" /\ call' # call /\ call'.pc # "cam_run") =>
              /\ ~cam'.is_running
              /\ ~cam'.camera
              /\ cam'.thread = cam.thread
              /\ capt' = capt
              /\ call.op = "start" => (call' = NoCall /\ log'.ret = "False")
        /\ (call.pc = "cam_start_chk" /\ call' # call /\ ~cam.is_running) =>
              call'.pc = "cam_open"
      ]_vars

\* a first start() has failed and a second start() is opening the session again
C18_Witness ==
    /\ log.calls = 2
    /\ log.ret = "False"
    /\ call.op = "start"
    /\ call.pc = "cam_open"
    /\ ~cam.is_running
    /\ ~cam.camera
    /\ \A t \in CaptureThreads : capt[t].pc = "none"

\* C19: when start() of a stopped module returns True, the gate clock
\* last_frame_time does not hold an admission time of the previous run (it is
\* the initial 0 or a time of the new run), the queue holds no frame from
\* before the call, and exactly one worker of the module is alive.
C19_StartResetsGateAndQueue ==
    [][ (call.op = "start" /\ call.pc # "idle" /\ call'.pc = "idle" /\ log'.ret = "True") =>
          LET m == mods'[call.mod]
          IN  /\ m.last_frame_time = 0 \/ m.last_frame_time > Epoch
              /\ \A i \in 1..Len(m.frame_queue) :
                     \E k \in 1..Len(log'.accepted) : log'.accepted[k].frame = m.frame_queue[i]
              /\ Cardinality({w \in WorkerThreads :
                     work'[w].mod = call.mod /\ work'[w].pc \notin {"none", "exited"}}) = 1
      ]_vars

\* C20: from the join of stop() on, through the teardown (queue clearing,
\* writer release, final timelapse assembly, hardware close) and when stop()
\* returns True, the background thread of the module or of the camera has
\* exited.
C20_StopJoinsThread ==
    [][ LET exited(n) == \/ mods[n].thread = 0
                         \/ work[mods[n].thread].pc = "exited"
        IN  /\ (/\ call.op = "stop"
                /\ call.mod \in Modules
                /\ call.pc \in {"stop_clear", "release", "tl_final", "k_check",
                                "k_dims", "k_write", "k_clear", "tl_time"})
                  => exited(call.mod)
            /\ (call.op = "stop" /\ call.mod \in Modules /\ call'.pc = "idle"
                /\ call.pc # "idle" /\ log'.ret = "True")
                  => (work'[mods[call.mod].thread].pc = "exited")
            /\ call.pc = "cam_close"
                  => (cam.thread = 0 \/ capt[cam.thread].pc = "exited")
      ]_vars

\* C30: at every moment at most one thread executes Camera._capture_frames.
C30_OneCaptureThread ==
    Cardinality({t \in CaptureThreads : capt[t].pc \notin {"none", "exited"}}) <= 1

\* C21: with two caller threads on one module, at most one worker thread of
\* the module is alive at any time and at most one start or stop of the module
\* is in flight at a time.
C21_StartStopSerialized ==
    /\ \A n \in Modules :
          Cardinality({w \in WorkerThreads :
              work[w].mod = n /\ work[w].pc \notin {"none", "exited"}}) <= 1
    /\ ~(call.pc # "idle" /\ ctl.pc # "idle" /\ call.mod = ctl.mod)

C23_FailedOpenRetried ==
    /\ mods["storage"].writer # 0
         => artifacts[mods["storage"].writer].kind = "video"
    /\ \A i \in 1..Len(artifacts) :
         artifacts[i].kind = "unopened" => artifacts[i].frames = <<>>

\* C24: within one run of the StorageModule at most one writer is opened and
\* a worker that is about to write a drained frame has that writer; once
\* stop() has returned True the module holds no writer and every writer that
\* was opened is released, until a later run drains a frame.
C24_OneWriterPerRun ==
    output_modules = <<"storage">>
    => /\ \A i, j \in 1..Len(artifacts) :
            artifacts[i].run = artifacts[j].run => i = j
       /\ \A w \in WorkerThreads :
            work[w].pc = "write" => mods["storage"].writer # 0
       /\ (/\ call.pc = "idle"
           /\ log.ret = "True"
           /\ ~mods["storage"].is_running)
          => /\ mods["storage"].writer = 0
             /\ \A i \in 1..Len(artifacts) : artifacts[i].released

\* C25: get_required_camera_fps is 0 for every module that is not running;
\* for a running stream or storage module it is the configured fps, for a
\* running timelapse module it is 1/frame_interval, whatever the duration.
C25_RequiredCameraFps ==
    \A name \in Modules :
        LET m == mods[name]
        IN  /\ ~m.is_running => get_required_camera_fps(name, m) = Zero
            /\ (m.is_running /\ name # "timelapse")
                  => get_required_camera_fps(name, m) = m.fps
            /\ (m.is_running /\ name = "timelapse")
                  => \A d \in DurationChoices \cup {300} :
                        get_required_camera_fps(name, [m EXCEPT !.duration = d])
                            = Rat(m.frame_interval[2], m.frame_interval[1])

\* a timelapse module capturing every 2 s is running and asks for 1/2 frame
\* per second, the modules that are not running ask for nothing
C25_Witness ==
    /\ mods["timelapse"].is_running
    /\ mods["timelapse"].frame_interval = Rat(2, 1)
    /\ get_required_camera_fps("timelapse", mods["timelapse"]) = Rat(1, 2)
    /\ ~mods["stream"].is_running
    /\ get_required_camera_fps("stream", mods["stream"]) = Zero
    /\ call.pc = "idle"

\* C26: a timelapse assembly that fails after the output file was opened
\* leaves no partial file behind: every timelapse file is complete (written
\* to the end and released), and the worker that assembled goes on to discard
\* the collected frames.
C26_NoPartialArtifact ==
    /\ \A i \in 1..Len(artifacts) :
         artifacts[i].kind = "timelapse" => artifacts[i].released
    /\ \A w \in WorkerThreads :
         work[w].pc = "k_clear" => work[w].mod = "timelapse"

\* C27: at each emission tick generate_frames yields the frame most recently
\* drained by the stream worker, and nothing when no frame ever arrived: the
\* tick yields the cached buffer (nothing while it is empty), the buffer is
\* written only by a worker with the frame it drained, and, frames being
\* drained in the order of their capture, the buffer never goes back to a
\* frame drained earlier.
C27_YieldsLatestFrame ==
    [][/\ (call.pc = "gen_get" /\ call'.pc = "gen_test")
          => log'.yielded = mods["stream"].last_frame
       /\ mods'["stream"].last_frame # mods["stream"].last_frame
          => /\ \E w \in WorkerThreads :
                  /\ work[w].pc = "proc"
                  /\ work[w].mod = "stream"
                  /\ mods'["stream"].last_frame = work[w].frame
             /\ mods'["stream"].last_frame > mods["stream"].last_frame]_vars

\* C28: add_output_module and remove_output_module are idempotent operations
\* on a set: no module is in the camera's list twice; adding a module that is
\* in the list and removing one that is not return False and leave the list
\* as it is; adding a module that is not in the list and then removing it
\* returns True twice and gives the list back as it was; the call just made
\* returned True exactly when it changed the list.
C28_RegistryIdempotent ==
    /\ \A i, j \in 1..Len(output_modules) :
         output_modules[i] = output_modules[j] => i = j
    /\ \A module \in Modules :
         LET present == \E i \in 1..Len(output_modules) : output_modules[i] = module
             added == add_output_module(output_modules, module)
             removed == remove_output_module(output_modules, module)
         IN  /\ present => ~added.ret /\ added.list = output_modules
             /\ ~present => ~removed.ret /\ removed.list = output_modules
             /\ ~present =>
                    /\ added.ret
                    /\ remove_output_module(added.list, module)
                          = [ret |-> TRUE, list |-> output_modules]
             /\ present =>
                    /\ removed.ret
                    /\ \A i \in 1..Len(removed.list) : removed.list[i] # module
                    /\ Len(removed.list) = Len(output_modules) - 1
    /\ call.op \in {"add_output_module", "remove_output_module"}
         => (log.ret = "True" <=> Len(output_modules) # log.before)

\* the three modules are registered and a call that adds one of them again
\* has returned False
C28_Witness ==
    /\ Len(output_modules) = 3
    /\ call.op = "add_output_module"
    /\ log.ret = "False"

\* C29: a running consumer at 5 fps offered frames at 30 fps for one second
\* accepts about 5 of them (5 plus or minus 1), and a frame that the gate
\* rejected is never passed to add_frame: after the 30 frames were offered
\* between 4 and 6 were accepted, and at every moment the frames in the queue,
\* held by the worker or cached by it are accepted ones, each accepted once.
C29_RateLimitedBurst ==
    LET accepted == {log.accepted[i].frame : i \in 1..Len(log.accepted)}
        q == mods["stream"].frame_queue
    IN  /\ Len(log.accepted) <= 6
        /\ (nframes = BurstFrames /\ \A t \in CaptureThreads : capt[t].frame = 0)
              => Len(log.accepted) >= 4
        /\ \A i, j \in 1..Len(log.accepted) :
              log.accepted[i].frame = log.accepted[j].frame => i = j
        /\ \A i \in 1..Len(q) : q[i] \in accepted
        /\ \A w \in WorkerThreads : work[w].frame # 0 => work[w].frame \in accepted
        /\ mods["stream"].last_frame # 0 => mods["stream"].last_frame \in accepted

\* the thirty frames were offered, five were accepted and the worker has
\* drained them all
C29_Witness ==
    /\ nframes = BurstFrames
    /\ \A t \in CaptureThreads : capt[t].frame = 0
    /\ Len(log.accepted) = 5
    /\ mods["stream"].frame_queue = <<>>
    /\ mods["stream"].last_frame = log.accepted[5].frame
    /\ mods["stream"].is_running

\* C31: within one consumer the frames are processed in the order in which
\* add_frame accepted them.  Frames are numbered as they are captured and one
\* capture thread offers them, so the order of acceptance is the order of the
\* numbers: the stream worker never encodes a frame accepted before the one
\* that was encoded last, and the frames written to a video file and the
\* frames appended to the timelapse session stand in increasing order.
C31_ProcessedInAcceptedOrder ==
    [][LET InOrder(frames) ==
               \A i, j \in 1..Len(frames) : i < j => frames[i] < frames[j]
       IN  /\ mods'["stream"].last_frame >= mods["stream"].last_frame
           /\ \A i \in 1..Len(artifacts') : InOrder(artifacts'[i].frames)
           /\ InOrder(mods'["timelapse"].frames)]_vars

\* C32: in the capture loop a capture failure that says the hardware session
\* died clears is_running, and the thread leaves the loop at its next test
\* unless the camera was started again; any other capture failure leaves
\* is_running as it is and the thread goes back to the loop test after the
\* backoff; a failed capture distributes no frame: the modules, the frame
\* count and the thread's pacing clock are unchanged.
C32_CaptureFailureHandling ==
    [][\A t \in CaptureThreads :
          /\ (capt[t].pc = "capture" /\ capt'[t].pc = "backoff")
                => /\ capt'[t].error = "died" => ~cam'.is_running
                   /\ capt'[t].error = "other" => cam' = cam
                   /\ cam'.camera = cam.camera
                   /\ mods' = mods
                   /\ nframes' = nframes
                   /\ capt'[t].frame = 0
                   /\ capt'[t].last_frame_time = capt[t].last_frame_time
          /\ (capt[t].pc = "backoff" /\ capt'[t] # capt[t])
                => /\ capt'[t].pc = "loop"
                   /\ mods' = mods
                   /\ cam' = cam
          /\ (capt[t].pc = "loop" /\ capt'[t] # capt[t] /\ ~cam.is_running)
                => capt'[t].pc = "exited"]_vars

\* the capture thread has left its loop after a failure that said the session
\* died: the camera is not running, no call was made since it was started
C32_Witness ==
    /\ capt[1].pc = "exited"
    /\ ~cam.is_running
    /\ cam.camera
    /\ call.pc = "idle"
    /\ call.op = "none"
    /\ log.calls = 1
    /\ log.ret = "True"

\* C35: whenever the camera is not running and no call is in progress the
\* hardware handle is released, and start() never opens a hardware session
\* while the camera holds one.
C35_HandleReleasedWhenStopped ==
    /\ (call.pc = "idle" /\ ~cam.is_running) => ~cam.camera
    /\ call.pc = "cam_open" => ~cam.camera

\* C33: a worker of a module whose is_running is False, with no frame
\* arriving, eventually terminates unless the module is started again: its
\* queue wait times out, it tests the flag and leaves the loop.
C33_WorkerTerminates ==
    \A w \in WorkerThreads :
        (work[w].pc \in {"loop", "get"} /\ ~mods[work[w].mod].is_running)
            ~> (work[w].pc \in {"none", "exited"} \/ mods[work[w].mod].is_running)

\* stop() has returned True, the module is stopped and its worker has left
\* the loop
C33_Witness ==
    /\ \E n \in {"stream", "storage"} :
         /\ output_modules = <<n>>
         /\ ~mods[n].is_running
         /\ mods[n].thread # 0
         /\ work[mods[n].thread].pc = "exited"
    /\ call.pc = "idle"
    /\ call.op = "none"
    /\ log.ret = "True"

\* C34: a running TimelapseModule with duration > 0 to which frames keep being
\* drained, at least min_frames in every window of the duration, keeps
\* producing artifacts, also after a window in which the duration elapsed
\* with fewer than min_frames frames collected: in the session fed every 2 s
\* an artifact is eventually produced.
C34_ArtifactsKeepComing == <>(Len(artifacts) >= 1)

\* C36: update_capture_fps never turns a running camera off: a call that
\* found the camera running and restarted it returns with the camera running,
\* also when the hardware session cannot be opened again.
C36_RenegotiationKeepsCameraRunning ==
    [][(/\ call.op = "update_capture_fps"
        /\ call.then \in {"start", "done"}
        /\ call'.pc = "idle")
       => cam'.is_running]_vars

\* C37: when the camera is not running update_capture_fps only records the
\* new rate: the call returns in its first step with is_running False, the
\* handle and the capture threads as they were and nothing else changed, and
\* no step of a start() changes the recorded rate, so the next start() runs
\* the camera at it.
C37_StoppedCameraOnlyRecordsFps ==
    [][/\ (call.pc = "cam_fps" /\ call' # call /\ ~cam.is_running)
          => /\ cam' = [cam EXCEPT !.current_capture_fps = ValidFps(call.new_fps)]
             /\ ~cam'.is_running
             /\ capt' = capt
             /\ mods' = mods
             /\ call'.pc = "idle"
       /\ (call.pc \in {"cam_start_chk", "cam_open", "cam_run"} /\ call' # call)
          => cam'.current_capture_fps = cam.current_capture_fps]_vars

\* the camera was started at the rate that an update_capture_fps recorded
\* while it was stopped
C37_Witness ==
    /\ call.pc = "idle"
    /\ call.op = "none"
    /\ log.calls = 2
    /\ log.ret = "True"
    /\ cam.is_running
    /\ cam.current_capture_fps = One
    /\ capt[1].pc # "none"
    /\ capt[2].pc = "none"

\* C38: a frame that should_process_frame admitted and add_frame then refused
\* (consumer stopped in between, or queue full) does not consume the rate gate:
\* when add_frame returns False the consumer's last_frame_time is not the
\* admission time of that frame.
C38_GateConsumedOnlyByEnqueuedFrames ==
    [][\A t \in CaptureThreads :
          (/\ capt[t].pc \in {"add", "put"}
           /\ capt'[t].pc = "dist"
           /\ ~log'.add
           /\ RLt(Zero, mods[output_modules[capt[t].i]].frame_interval))
          => mods'[output_modules[capt[t].i]].last_frame_time < capt[t].gate_time]_vars

\* C39: while the TimelapseModule runs, a worker step that drains no frame
\* starts no assembly and leaves the collected frames, start_time and the
\* artifacts unchanged, whatever the clock says; an assembly is entered only
\* from the trigger test that follows an append; and the artifact a worker
\* writes while the module runs contains the frame whose append triggered it.
C39_TriggerOnlyOnAppend ==
    [][\A w \in WorkerThreads :
          /\ (/\ work[w].pc \in {"loop", "get"}
              /\ work[w].mod = "timelapse"
              /\ work'[w] # work[w]
              /\ mods["timelapse"].is_running
              /\ work'[w].pc # "proc")
             => /\ work'[w].pc \in {"loop", "get"}
                /\ mods'["timelapse"].frames = mods["timelapse"].frames
                /\ mods'["timelapse"].start_time = mods["timelapse"].start_time
                /\ artifacts' = artifacts
          /\ (/\ work'[w].pc = "k_check"
              /\ work[w].pc # "k_check"
              /\ mods["timelapse"].is_running)
             => work[w].pc = "trigger"
          /\ (/\ work[w].pc = "k_write"
              /\ work'[w].pc = "k_clear"
              /\ mods["timelapse"].is_running)
             => \E i \in 1..Len(artifacts'[Len(artifacts')].frames) :
                    artifacts'[Len(artifacts')].frames[i] = mods["timelapse"].last_frame]_vars

\* C40: TimelapseModule.start() begins a clean session under every
\* interleaving: its reset of the frame list discards no frame that was drained
\* since the start began, at its return start_time is the time of this start
\* and greater than 0, and once it has returned no step of the worker of the
\* running module resets start_time to 0.
C40_StartBeginsCleanSession ==
    [][/\ (call.pc = "tl_start" /\ call'.pc = "idle")
          => /\ mods["timelapse"].frames = <<>>
             /\ mods'["timelapse"].start_time = now
             /\ mods'["timelapse"].start_time > 0
       /\ \A w \in WorkerThreads :
             (/\ work'[w] # work[w]
              /\ call.pc = "idle"
              /\ mods["timelapse"].is_running
              /\ mods["timelapse"].start_time > 0)
             => mods'["timelapse"].start_time > 0]_vars

=============================================================================
